---- MODULE Spec2Model ----
(***************************************************************************)
(* Model of the recommendation serving path of flask_app/app.py:           *)
(* candidate generation, candidate merge, hybrid scoring, personalization  *)
(* mixing and the session cache with pagination.                           *)
(*                                                                         *)
(* Conventions                                                             *)
(*  - A Python dict with optional keys is a function whose DOMAIN holds    *)
(*    the keys present: "k in c" is  k \in DOMAIN c.                       *)
(*  - Scores are fixed-point integers: a score field s of the program is   *)
(*    the integer 100*s (hundredths), so 0.9 is 90 and 1.0 is 100.         *)
(*  - Times are whole seconds.                                             *)
(*  - Identifiers are strings. ObjectId(s) is [oid |-> s] and str() of it  *)
(*    is s again, so a field holding an ObjectId and a field holding the   *)
(*    same identifier as a plain string are different values, as in the    *)
(*    document store.                                                      *)
(*  - A collection is the sequence of its documents in natural order.      *)
(***************************************************************************)
EXTENDS Integers, Sequences, FiniteSets, TLC

VARIABLES
    \* ---- pure-function harnesses
    merge_in,           \* merge_candidates: the candidate_lists argument
    merge_out,          \* merge_candidates: the returned list
    rec_doc,            \* compute_recency_score: the item_doc argument
    rec_now,            \* compute_recency_score: what datetime.utcnow() returns
    rec_out,            \* compute_recency_score: the outcome
    hyb_in,             \* compute_hybrid: the candidates argument
    hyb_out,            \* compute_hybrid: the outcome
    mix_in,             \* the mixer: the scored, sorted recommendations
    mix_ratio,          \* the mixer: personalized_ratio, in hundredths
    mix_out,            \* the mixer: mixed_recommendations after the backfill
    \* ---- the document store (MongoDB collections) and the recommender
    feeds_col,
    likes_col,
    comments_col,
    saved_feeds_col,
    reposts_col,
    follows_col,
    watch_col,
    interests_col,
    explore_feeds_col,
    related_items_col,
    gorse,              \* per user id, how GET {GORSE_URL}/recommend/{id} answers
    \* ---- time
    now,                \* the clock, in seconds
    \* ---- the cache store (Redis) and the request workers
    REDIS_AVAILABLE,    \* the flag connect_redis sets at startup (redis_client is
                        \* None exactly when it is False)
    redis_up,           \* whether the cache store is reachable now
    redis_data,         \* key -> [value, expires]: the entries the cache store holds
    req,                \* per worker: the request it serves, its locals, its response
    served              \* the number of requests received so far

mergeVars == <<merge_in, merge_out>>

recVars == <<rec_doc, rec_now, rec_out>>

hybVars == <<hyb_in, hyb_out>>

mixVars == <<mix_in, mix_ratio, mix_out>>

storeVars ==
    <<feeds_col, likes_col, comments_col, saved_feeds_col, reposts_col,
      follows_col, watch_col, interests_col, explore_feeds_col,
      related_items_col, gorse>>

cacheVars == <<REDIS_AVAILABLE, redis_up, redis_data>>

serveVars == <<REDIS_AVAILABLE, redis_up, redis_data, req, served>>

vars ==
    <<merge_in, merge_out, rec_doc, rec_now, rec_out, hyb_in, hyb_out,
      mix_in, mix_ratio, mix_out,
      feeds_col, likes_col, comments_col, saved_feeds_col, reposts_col,
      follows_col, watch_col, interests_col, explore_feeds_col,
      related_items_col, gorse, now,
      REDIS_AVAILABLE, redis_up, redis_data, req, served>>

\* ---------------------------------------------------------------- helpers

\* dict.get(key, default)
Get(d, key, default) ==
    IF key \in DOMAIN d THEN d[key] ELSE default

\* Python's max(a, b)
Max(a, b) ==
    IF b > a THEN b ELSE a

\* Python's min(a, b)
Min(a, b) ==
    IF b < a THEN b ELSE a

\* The greatest element of a non-empty set of integers.
MaxOf(S) ==
    CHOOSE x \in S : \A y \in S : y <= x

\* The elements of a sequence.
Range(s) ==
    {s[i] : i \in DOMAIN s}

\* The concatenation of a sequence of sequences (of its first half followed
\* by that of its second half).
RECURSIVE Flatten(_)
Flatten(ls) ==
    IF ls = <<>> THEN <<>>
    ELSE IF Len(ls) = 1 THEN ls[1]
    ELSE Flatten(SubSeq(ls, 1, Len(ls) \div 2))
         \o Flatten(SubSeq(ls, Len(ls) \div 2 + 1, Len(ls)))

\* s[:n] for n >= 0
Take(s, n) ==
    SubSeq(s, 1, Min(Len(s), n))

\* s[start:end] for 0 <= start <= end (Python slice: out-of-range is empty)
Slice(s, start, end) ==
    SubSeq(s, start + 1, Min(Len(s), end))

\* The list of the values f[1], ..., f[n] of a function f on 1..n.
List(f) ==
    SubSeq(f, 1, Len(f))

\* s without the repetitions of an element after its first occurrence (the
\* key order of a dict filled in the order of s).
Dedup(s) ==
    LET firsts == SelectSeq(List([i \in DOMAIN s |-> i]),
                            LAMBDA i : \A j \in 1..(i - 1) : s[j] # s[i])
    IN  List([k \in DOMAIN firsts |-> s[firsts[k]]])

\* A descending sort that reverses the order of equal keys.
RankTiesReversed(keys, i) ==
    1 + Cardinality({j \in DOMAIN keys :
                        keys[j] > keys[i] \/ (keys[j] = keys[i] /\ j > i)})

\* The 1-based place index i takes when the keys are sorted in descending
\* order, equal keys keeping their order.
Rank(keys, i) ==
    1 + Cardinality({j \in DOMAIN keys :
                        keys[j] > keys[i] \/ (keys[j] = keys[i] /\ j < i)})

\* s sorted by keys (keys[i] is the key of s[i]), descending and stable:
\* sorted(s, key=..., reverse=True), and a cursor's sort(field, -1).
SortedDesc(s, keys) ==
    LET ranks == List([i \in DOMAIN s |-> Rank(keys, i)])
    IN  List([p \in DOMAIN s |-> s[CHOOSE i \in DOMAIN s : ranks[i] = p]])

\* The empty dict {}; None where a dict is expected is modelled by it too
\* (the program only tests such values for truth).
EmptyDoc ==
    [x \in {} |-> 0]

\* The outcome of a call that returned v.
Returned(v) ==
    [value |-> v]

\* The outcome of a call that raised exception e instead of returning.
Raised(e) ==
    [raised |-> e]

IsRaised(r) ==
    "raised" \in DOMAIN r

\* No call has been made yet.
NotCalled ==
    [pending |-> TRUE]

\* ------------------------------------------------------------ identifiers

\* The strings that are well-formed ObjectIds (24 hexadecimal digits in the
\* program): the identifiers of users and of feed items.
HexIds ==
    {"a", "f", "g"} \cup {"i" \o ToString(k) : k \in 1..120}

\* ObjectId.is_valid(s)
ObjectIdValid(s) ==
    s \in HexIds

\* ObjectId(s)
ObjectId(s) ==
    [oid |-> s]

\* str(x) of an ObjectId
Str(x) ==
    x.oid

\* ------------------------------------------------------------- timestamps

(* A createdAt value is one of
     [type |-> "datetime", t |-> s]              a naive datetime (what the
                                                 document store returns)
     [type |-> "str", form |-> f, t |-> s]       a string, of form
         "naive"    "2024-05-01T10:00:00"        (no offset)
         "zulu"     "2024-05-01T10:00:00Z"       (UTC designator)
         "garbage"  not an ISO-8601 timestamp
     [type |-> "empty"]                          None or ""
   and a document without the key has no createdAt at all. *)
DateTime(s) ==
    [type |-> "datetime", t |-> s]

\* An offset-aware datetime, as fromisoformat returns for "...+00:00".
AwareDateTime(s) ==
    [type |-> "aware", t |-> s]

TimeString(f, s) ==
    [type |-> "str", form |-> f, t |-> s]

EmptyValue ==
    [type |-> "empty"]

\* ------------------------------------------------------ program constants

DEFAULT_PAGE_SIZE == 10

MAX_PAGE_SIZE == 20

MIN_PAGE_SIZE == 5

\* seconds
CACHE_TTL == 600

PRELOAD_BUFFER == 100

\* candidate_followed_users(user_id, limit=50)
FollowedLimit == 50

\* candidate_interest(user_id, limit=30)
InterestLimit == 30

\* candidate_trending(limit=20)
TrendingLimit == 20

\* related_items_col.find(...).sort("score", -1).limit(20)
RelatedLimit == 20

\* --------------------------------------------------- store query helpers

\* collection.find(query) is SelectSeq(collection, query): the matching
\* documents in natural order.

\* find_one(...) or {}, given the documents that match
FirstOrEmpty(hits) ==
    IF hits = <<>> THEN EmptyDoc ELSE hits[1]

\* A field that holds a truthy value (present, and not None/""/0).
Truthy(d, key) ==
    key \in DOMAIN d

\* The number of indices of s whose element is x.
Count(s, x) ==
    Cardinality({i \in DOMAIN s : s[i] = x})

\* The followingId of every active follow edge of user_oid.
Following(user_oid) ==
    LET follows == SelectSeq(follows_col,
                        LAMBDA f : f.followerId = user_oid /\ f.status = "active")
    IN  {follows[i].followingId : i \in DOMAIN follows}

\* ------------------------------------------------- exclusion set builder

\* get_user_seen_items(user_id)
get_user_seen_items(user_id) ==
    IF ~ObjectIdValid(user_id) THEN {}
    ELSE LET user_oid == ObjectId(user_id)
             Mine(col) == SelectSeq(col, LAMBDA d : d.userId = user_oid)
             Targets(col, key) ==
                 {Str(Mine(col)[i][key]) :
                    i \in {j \in DOMAIN Mine(col) : Truthy(Mine(col)[j], key)}}
             watched == SelectSeq(watch_col, LAMBDA d : d.user_id = user_id)
         IN  Targets(likes_col, "feedId")
             \cup Targets(comments_col, "feedId")
             \cup Targets(saved_feeds_col, "feedId")
             \cup Targets(reposts_col, "originalFeedId")
             \cup {watched[i].item_id :
                     i \in {j \in DOMAIN watched : Truthy(watched[j], "item_id")}}

\* get_user_created_items(user_id)
get_user_created_items(user_id) ==
    IF ~ObjectIdValid(user_id) THEN {}
    ELSE LET mine == SelectSeq(feeds_col, LAMBDA d : d.userId = ObjectId(user_id))
         IN  {Str(mine[i]._id) : i \in DOMAIN mine}

\* recommend: the user_liked_items set, read from the like store
\* (str(like.get("targetId") or like.get("feedId")) of the user's likes).
user_liked_items(user_id) ==
    IF ~ObjectIdValid(user_id) THEN {}
    ELSE LET mine == SelectSeq(likes_col, LAMBDA d : d.userId = ObjectId(user_id))
             Target(d) == IF Truthy(d, "targetId") THEN d.targetId ELSE d.feedId
         IN  {Str(Target(mine[i])) :
                i \in {j \in DOMAIN mine :
                         Truthy(mine[j], "targetId") \/ Truthy(mine[j], "feedId")}}

\* ----------------------------------------------- candidate source adapters

\* candidate_followed_users: one record of its result.
FollowedRecord(feed) ==
    [item_id |-> Str(feed._id), content_score |-> 90, category |-> "post",
     popularity_score |-> Get(feed, "decayedPopularityScore", 0),
     feed_data |-> feed]

\* candidate_interest: one record of its result.
InterestRecord(feed) ==
    [item_id |-> Str(feed._id), content_score |-> 70, category |-> "post",
     popularity_score |-> Get(feed, "decayedPopularityScore", 0),
     feed_data |-> feed]

\* candidate_trending: one record of its result (no feed_data).
TrendingRecord(feed) ==
    [item_id |-> Str(feed.feedId), content_score |-> 50, category |-> "post",
     popularity_score |-> Get(feed, "popularityScore", 0)]

\* generate_recommendations_for_user: the record appended per recommender item.
GorseRecord(it, feed) ==
    [item_id |-> it.item_id, cf_score |-> Get(it, "cf_score", 0),
     category |-> "post",
     popularity_score |-> Get(feed, "decayedPopularityScore", 0),
     feed_data |-> feed]

\* generate_recommendations_for_user: the record appended per related item.
RelatedRecord(r) ==
    [item_id |-> r.related_item_id, cf_score |-> Get(r, "score", 0)]

\* generate_recommendations_for_user: the record appended per social boost.
SocialRecord(s) ==
    [item_id |-> s.item_id, social_score |-> s.social_score]

\* The sort key of a cursor sorted on createdAt: a missing field sorts lowest.
CreatedAtKey(feed) ==
    IF "createdAt" \in DOMAIN feed /\ "t" \in DOMAIN feed.createdAt
    THEN feed.createdAt.t ELSE -1

\* candidate_interest(user_id, limit)
candidate_interest(user_id, limit) ==
    IF ~ObjectIdValid(user_id) THEN <<>>
    ELSE LET ui == FirstOrEmpty(SelectSeq(interests_col,
                                  LAMBDA d : d.userId = ObjectId(user_id)))
             tags == Get(ui, "interests", {})
             cursor == Take(SelectSeq(feeds_col,
                                 LAMBDA d : /\ Get(d, "hashtags", {}) \cap tags # {}
                                            /\ d.status = "active"),
                            limit)
         IN  IF ui = EmptyDoc \/ tags = {} THEN <<>>
             ELSE [i \in DOMAIN cursor |-> InterestRecord(cursor[i])]

\* candidate_followed_users(user_id, limit)
candidate_followed_users(user_id, limit) ==
    IF ~ObjectIdValid(user_id) THEN <<>>
    ELSE LET followed == Following(ObjectId(user_id))
             found == SelectSeq(feeds_col,
                           LAMBDA d : d.userId \in followed /\ d.status = "active")
             cursor == Take(SortedDesc(found,
                                       [i \in DOMAIN found |-> CreatedAtKey(found[i])]),
                            limit)
         IN  IF followed = {} THEN <<>>
             ELSE [i \in DOMAIN cursor |-> FollowedRecord(cursor[i])]

\* str(like.get("feedId")): str(None) is "None"
FeedIdString(d) ==
    IF "feedId" \in DOMAIN d THEN Str(d.feedId) ELSE "None"

\* candidate_social_boost(user_id): +0.5 per friend like, +0.3 per friend
\* comment, in the order the items first occur.
candidate_social_boost(user_id) ==
    IF ~ObjectIdValid(user_id) THEN <<>>
    ELSE LET friends == Following(ObjectId(user_id))
             liked == SelectSeq(likes_col, LAMBDA d : d.userId \in friends)
             commented == SelectSeq(comments_col, LAMBDA d : d.userId \in friends)
             likeIds == [i \in DOMAIN liked |-> FeedIdString(liked[i])]
             commentIds == [i \in DOMAIN commented |-> FeedIdString(commented[i])]
             keys == Dedup(likeIds \o commentIds)
         IN  IF friends = {} THEN <<>>
             ELSE [i \in DOMAIN keys |->
                     [item_id |-> keys[i],
                      social_score |-> 50 * Count(likeIds, keys[i])
                                       + 30 * Count(commentIds, keys[i])]]

\* candidate_trending(limit)
candidate_trending(limit) ==
    LET found == SelectSeq(explore_feeds_col, LAMBDA d : d.status = "active")
        cursor == Take(SortedDesc(found,
                                  [i \in DOMAIN found |->
                                      Get(found[i], "popularityScore", -1)]),
                       limit)
        kept == SelectSeq(cursor, LAMBDA d : Truthy(d, "feedId"))
    IN  [i \in DOMAIN kept |-> TrendingRecord(kept[i])]

\* ------------------------------------------ external recommender adapter

\* The identifier parse_gorse_items stores when an entry names none (None).
NoneId == "<None>"

\* Identifiers of a recommender entry that are JSON arrays or objects
\* (Python lists or dicts): such a value cannot be hashed, so a set or dict
\* lookup of it raises TypeError.
UnhashableIds == {"<list>", "<dict>"}

\* it.get("Id") or it.get("ItemId") or it.get("item_id") or it.get("id")
GorseEntryId(it) ==
    IF Truthy(it, "Id") THEN it["Id"]
    ELSE IF Truthy(it, "ItemId") THEN it["ItemId"]
    ELSE IF Truthy(it, "item_id") THEN it["item_id"]
    ELSE IF Truthy(it, "id") THEN it["id"]
    ELSE NoneId

\* it.get("Score") or it.get("score") or 0: a score of 0 is falsy
GorseEntryScore(it) ==
    IF "Score" \in DOMAIN it /\ it["Score"] # 0 THEN it["Score"]
    ELSE IF "score" \in DOMAIN it /\ it["score"] # 0 THEN it["score"]
    ELSE 0

(* parse_gorse_items(resp). A response body is
     [json |-> FALSE]                      not JSON
     [json |-> TRUE, list |-> FALSE]       JSON, but not a list
     [json |-> TRUE, list |-> TRUE, items |-> <<...>>]
   and an entry of the list is a dict, or [bare |-> id] for a bare
   identifier. *)
parse_gorse_items(body) ==
    IF ~body.json THEN <<>>
    ELSE IF ~body.list THEN <<>>
    ELSE List([i \in DOMAIN body.items |->
                 LET it == body.items[i]
                 IN  IF "bare" \in DOMAIN it
                     THEN [item_id |-> it.bare, cf_score |-> 0]
                     ELSE [item_id |-> GorseEntryId(it),
                           cf_score |-> GorseEntryScore(it)]])

(* get_gorse_recommendations(user_id, n). gorse[user_id] is how the
   recommender answers:
     [outcome |-> "error"]                           timeout, transport failure
     [outcome |-> "response", status |-> c, body |-> b] *)
get_gorse_recommendations(user_id) ==
    LET r == gorse[user_id]
    IN  IF r.outcome = "error" THEN <<>>
        ELSE IF r.status = 200 THEN parse_gorse_items(r.body)
        ELSE <<>>

\* ------------------------------------------------------ merge_candidates

ScoreKeys == {"cf_score", "content_score", "social_score"}

\* The index of item iid in the merged dict's insertion order, 0 if absent.
IndexOf(merged, iid) ==
    IF \E i \in DOMAIN merged : merged[i].item_id = iid
    THEN CHOOSE i \in DOMAIN merged : merged[i].item_id = iid
    ELSE 0

\* MergeInto with the score fields overwritten instead of maximised.
MergeIntoLastWins(old, c) ==
    LET touched == (DOMAIN c) \cap (ScoreKeys \cup {"feed_data"})
    IN  [k \in (DOMAIN old) \cup touched |->
            IF k \in touched THEN c[k] ELSE old[k]]

\* MergeInto that keeps the snapshot the stored record already has.
MergeIntoFirstSnapshot(old, c) ==
    LET touched == (DOMAIN c) \cap (ScoreKeys \cup {"feed_data"})
    IN  [k \in (DOMAIN old) \cup touched |->
            IF k \in (DOMAIN c) \cap ScoreKeys THEN Max(Get(old, k, 0), c[k])
            ELSE IF k = "feed_data" /\ k \notin DOMAIN old THEN c[k]
            ELSE old[k]]

\* The else branch of the loop body: the stored record old updated from c.
MergeInto(old, c) ==
    LET touched == (DOMAIN c) \cap (ScoreKeys \cup {"feed_data"})
    IN  [k \in (DOMAIN old) \cup touched |->
            IF k \in (DOMAIN c) \cap ScoreKeys THEN Max(Get(old, k, 0), c[k])
            ELSE IF k = "feed_data" /\ k \in DOMAIN c THEN c[k]
            ELSE old[k]]

\* MergeStep without the "iid not in merged" test.
MergeStepNoDedup(merged, c) ==
    Append(merged, c)

\* One iteration of the inner loop: merged is the dict as the sequence of its
\* values in insertion order.
MergeStep(merged, c) ==
    LET i == IndexOf(merged, c.item_id)
    IN  IF i = 0 THEN Append(merged, c)
        ELSE [merged EXCEPT ![i] = MergeInto(merged[i], c)]

\* The loops of merge_candidates over the records cs, starting from the
\* dict merged.
RECURSIVE MergeFold(_, _)
MergeFold(merged, cs) ==
    IF cs = <<>> THEN merged
    ELSE MergeFold(MergeStep(merged, Head(cs)), Tail(cs))

\* merge_candidates(candidate_lists): list(merged.values()).  The dict keeps
\* its keys in the order the item ids first occur, and the iterations for
\* different ids touch different entries: the loops are run id by id, over
\* the records of that id.
merge_candidates(candidate_lists) ==
    LET cs == Flatten(candidate_lists)
        ids == Dedup(List([i \in DOMAIN cs |-> cs[i].item_id]))
    IN  Flatten(List([p \in DOMAIN ids |->
                        MergeFold(<<>>, SelectSeq(cs, LAMBDA c : c.item_id = ids[p]))]))

\* ------------------------------------------------- compute_recency_score

\* datetime.fromisoformat(ts.replace("Z", "+00:00")); the except clause
\* substitutes datetime.utcnow() when the string does not parse.
ParseTimestamp(ts, utcnow) ==
    CASE ts.form = "naive" -> DateTime(ts.t)
      [] ts.form = "zulu" -> AwareDateTime(ts.t)
      [] OTHER -> DateTime(utcnow)

\* The if/elif chain over age_hours, on seconds: age_hours < h is
\* age_seconds < 3600*h.
RecencyStep(age_seconds) ==
    IF age_seconds < 3600 THEN 100
    ELSE IF age_seconds < 24 * 3600 THEN 80
    ELSE IF age_seconds < 72 * 3600 THEN 50
    ELSE 20

\* compute_recency_score(item_doc), with utcnow what datetime.utcnow()
\* returns: the score in hundredths, or the TypeError that subtracting an
\* offset-aware datetime from the naive utcnow() raises.
compute_recency_score(item_doc, utcnow) ==
    LET ts == Get(item_doc, "createdAt", EmptyValue)
    IN  IF ts.type = "empty" THEN Returned(20)
        ELSE LET dt == IF ts.type = "str" THEN ParseTimestamp(ts, utcnow) ELSE ts
             IN  IF dt.type = "aware" THEN Raised("TypeError")
                 ELSE Returned(RecencyStep(utcnow - dt.t))

\* -------------------------------------------------------- compute_hybrid

\* round(final, 6): final is a whole number of 1e-5 units (weights in
\* hundredths, scores in hundredths, the boost in tenths), hence already a
\* whole number of 1e-6 units; the score is kept in 1e-6 units.
Round6(final) ==
    final * 10

\* WatchBoost with a boost of 1.5.
WatchBoostLarge(user_id, iid) ==
    LET watch == FirstOrEmpty(SelectSeq(watch_col,
                                LAMBDA d : d.user_id = user_id /\ d.item_id = iid))
    IN  IF Get(watch, "watch_time", 0) >= 5 THEN 15 ELSE 10

\* The watch multiplier in tenths: 1.2 from a recorded watch_time of 5, else 1.0.
WatchBoost(user_id, iid) ==
    LET watch == FirstOrEmpty(SelectSeq(watch_col,
                                LAMBDA d : d.user_id = user_id /\ d.item_id = iid))
    IN  IF Get(watch, "watch_time", 0) >= 5 THEN 12 ELSE 10

\* The item snapshot compute_hybrid resolves for candidate c.
ItemDoc(c) ==
    IF "feed_data" \in DOMAIN c THEN c.feed_data
    ELSE IF ObjectIdValid(c.item_id)
    THEN FirstOrEmpty(SelectSeq(feeds_col, LAMBDA d : d._id = ObjectId(c.item_id)))
    ELSE EmptyDoc

\* social_map.get(iid, 0)
FriendBoost(user_id, iid) ==
    LET social == candidate_social_boost(user_id)
        hits == SelectSeq(social, LAMBDA s : s.item_id = iid)
    IN  IF hits = <<>> THEN 0 ELSE hits[Len(hits)].social_score

\* The weighted sum times the watch multiplier, in 1e-5 units.
FinalScore(cf, content, recency, popularity, friend_boost, watch_boost) ==
    (35 * cf + 30 * content + 15 * recency + 10 * popularity
     + 10 * friend_boost) * watch_boost

\* The loop body of compute_hybrid for candidate c, given its recency score.
ScoredRecord(user_id, c, recency) ==
    LET item_doc == ItemDoc(c)
        popularity == Get(item_doc, "decayedPopularityScore", 0)
        final == FinalScore(Get(c, "cf_score", 0), Get(c, "content_score", 0),
                            recency, popularity,
                            FriendBoost(user_id, c.item_id),
                            WatchBoost(user_id, c.item_id))
    IN  [item_id |-> c.item_id,
         score |-> Round6(final),
         category |-> Get(c, "category", "post"),
         popularity |-> popularity,
         feed_data |-> item_doc]

\* compute_hybrid(user_id, candidates), with utcnow the clock reading: the
\* scored records sorted by score, or the exception the recency score raised.
compute_hybrid(user_id, candidates, utcnow) ==
    LET recency == List([i \in DOMAIN candidates |->
                           compute_recency_score(ItemDoc(candidates[i]), utcnow)])
        scored == List([i \in DOMAIN candidates |->
                          ScoredRecord(user_id, candidates[i], recency[i].value)])
    IN  IF \E i \in DOMAIN candidates : IsRaised(recency[i])
        THEN Raised("TypeError")
        ELSE Returned(SortedDesc(scored,
                                 List([i \in DOMAIN scored |-> scored[i].score])))
\* ------------------------------------------------- idle variable groups

MergeIdle ==
    /\ merge_in = <<>>
    /\ merge_out = <<>>

RecencyIdle ==
    /\ rec_doc = EmptyDoc
    /\ rec_now = 0
    /\ rec_out = NotCalled

HybridIdle ==
    /\ hyb_in = <<>>
    /\ hyb_out = NotCalled

MixIdle ==
    /\ mix_in = <<>>
    /\ mix_ratio = 0
    /\ mix_out = NotCalled

StoreEmpty ==
    /\ feeds_col = <<>>
    /\ likes_col = <<>>
    /\ comments_col = <<>>
    /\ saved_feeds_col = <<>>
    /\ reposts_col = <<>>
    /\ follows_col = <<>>
    /\ watch_col = <<>>
    /\ interests_col = <<>>
    /\ explore_feeds_col = <<>>
    /\ related_items_col = <<>>
    /\ gorse = <<>>

ServeIdle ==
    /\ REDIS_AVAILABLE = FALSE
    /\ redis_up = FALSE
    /\ redis_data = EmptyDoc
    /\ req = <<>>
    /\ served = 0

\* ------------------------------------ specification: merge_candidates

\* At most this many candidate records are handed to merge_candidates.
MaxMergeLen == 3

\* Item identifiers handed to the merge.
MergeItemIds == {"i1", "i2"}

\* cf_score values a recommender or the related-item store returns.
CfValues == {0, 60}

\* social_score values: 0.3 (one friend comment), 0.8 (a like and a comment).
SocialValues == {30, 80}

\* The feed document of item iid as one query of the feeds collection read
\* it: the sources query separately, and likeCount tells their reads apart.
FeedRead(iid, n) ==
    [_id |-> ObjectId(iid), status |-> "active", likeCount |-> n]

\* Every record a candidate source can hand to the merge, for item iid.
RecordsOf(iid) ==
    {FollowedRecord(FeedRead(iid, 1)),
     InterestRecord(FeedRead(iid, 2)),
     TrendingRecord([feedId |-> ObjectId(iid), status |-> "active"])}
    \cup {GorseRecord([item_id |-> iid, cf_score |-> cf], FeedRead(iid, 3)) :
            cf \in CfValues}
    \cup {RelatedRecord([related_item_id |-> iid, score |-> cf]) : cf \in CfValues}
    \cup {SocialRecord([item_id |-> iid, social_score |-> s]) : s \in SocialValues}

CandidateRecords ==
    UNION {RecordsOf(iid) : iid \in MergeItemIds}

InitMerge ==
    /\ merge_in = <<>>
    /\ merge_out = merge_candidates(<<>>)
    /\ RecencyIdle
    /\ HybridIdle
    /\ StoreEmpty
    /\ ServeIdle
    /\ MixIdle
    /\ now = 0

MergeInputLen ==
    Len(Flatten(merge_in))

\* A further record arrives in the last candidate list; the merge is applied.
MergeAppend ==
    /\ merge_in # <<>>
    /\ MergeInputLen < MaxMergeLen
    /\ \E c \in CandidateRecords :
          merge_in' = [merge_in EXCEPT ![Len(merge_in)] = Append(@, c)]
    /\ merge_out' = merge_candidates(merge_in')
    /\ UNCHANGED <<mixVars, recVars, hybVars, storeVars, serveVars, now>>

\* A further candidate list starts with one record; the merge is applied.
MergeNewList ==
    /\ MergeInputLen < MaxMergeLen
    /\ \E c \in CandidateRecords :
          merge_in' = Append(merge_in, <<c>>)
    /\ merge_out' = merge_candidates(merge_in')
    /\ UNCHANGED <<mixVars, recVars, hybVars, storeVars, serveVars, now>>

NextMerge ==
    \/ MergeAppend
    \/ MergeNewList

SpecMerge ==
    InitMerge /\ [][NextMerge]_vars

\* The records handed to the merge, in the order the loops visit them.
MergeInputs ==
    Flatten(merge_in)

\* The values of field key that the records of cs for item iid supply.
Supplied(cs, iid, key) ==
    {cs[i][key] : i \in {j \in DOMAIN cs : cs[j].item_id = iid /\ key \in DOMAIN cs[j]}}

\* Record r carries, for each score field, the maximum over the records of cs
\* for its item that supply the field, and lacks the field if none does.
PerFieldMax(r, cs) ==
    \A key \in ScoreKeys :
        LET S == Supplied(cs, r.item_id, key)
        IN  IF S = {} THEN key \notin DOMAIN r
            ELSE key \in DOMAIN r /\ r[key] = MaxOf(S)

\* The score fields of the merged record of item iid in list out.
ScoreFields(out, iid) ==
    LET r == out[IndexOf(out, iid)]
    IN  [key \in (DOMAIN r) \cap ScoreKeys |-> r[key]]

\* The records of cs in reverse order.
Reversed(cs) ==
    [i \in DOMAIN cs |-> cs[Len(cs) + 1 - i]]

(* C7: the list merge_candidates returns holds every item_id of the input
   records exactly once and no other item_id. *)
C7_MergeEachItemOnce ==
    /\ {merge_out[i].item_id : i \in DOMAIN merge_out}
          = {MergeInputs[i].item_id : i \in DOMAIN MergeInputs}
    /\ \A i, j \in DOMAIN merge_out :
          merge_out[i].item_id = merge_out[j].item_id => i = j

\* An item_id occurs in two input records and another item_id is present too.
C7_Witness ==
    /\ \E i, j \in DOMAIN MergeInputs :
          i # j /\ MergeInputs[i].item_id = MergeInputs[j].item_id
    /\ Len(merge_out) = 2

(* C8: each of cf_score, content_score and social_score of a merged record is
   the maximum of that field over the input records of its item that supply
   it, and is absent if none supplies it; the values do not depend on how the
   records are grouped into lists nor on their order. *)
C8_MergePerFieldMax ==
    /\ \A i \in DOMAIN merge_out : PerFieldMax(merge_out[i], MergeInputs)
    /\ LET one == merge_candidates(<<MergeInputs>>)
           rev == merge_candidates(<<Reversed(MergeInputs)>>)
       IN  \A i \in DOMAIN merge_out :
              LET iid == merge_out[i].item_id
              IN  /\ ScoreFields(one, iid) = ScoreFields(merge_out, iid)
                  /\ ScoreFields(rev, iid) = ScoreFields(merge_out, iid)

\* Two lists are merged; an item has its larger cf_score in the first list, a
\* smaller one in the second, and a record that supplies no cf_score.
C8_Witness ==
    /\ Len(merge_in) = 2
    /\ \E i \in DOMAIN merge_in[1], j \in DOMAIN merge_in[2] :
          /\ merge_in[1][i].item_id = merge_in[2][j].item_id
          /\ "cf_score" \in DOMAIN merge_in[1][i]
          /\ "cf_score" \in DOMAIN merge_in[2][j]
          /\ merge_in[1][i].cf_score > merge_in[2][j].cf_score
    /\ \E i \in DOMAIN MergeInputs :
          /\ MergeInputs[i].item_id = merge_in[1][1].item_id
          /\ "cf_score" \notin DOMAIN MergeInputs[i]

\* ------------------------------- specification: compute_recency_score

\* Ages in hours that the snapshots cover: each step of the function, both
\* sides of each boundary, and a timestamp in the future.
AgeHours == {-1, 0, 1, 10, 23, 24, 48, 71, 72, 200}

\* A snapshot is up to this many half hours older than a whole hour of AgeHours.
MaxHalfHours == 1

\* The clock readings, in seconds, at which the function is called.
ClockReadings == {1000000, 1000007}

\* The creation times of the snapshots, in seconds.
CreationTimes ==
    {1000000 - 3600 * h - 1800 * k : h \in AgeHours, k \in 0..MaxHalfHours}

\* The item snapshots handed to compute_recency_score.
RecencySnapshots ==
    {[_id |-> ObjectId("i1")],
     [_id |-> ObjectId("i1"), createdAt |-> EmptyValue]}
    \cup {[_id |-> ObjectId("i1"), createdAt |-> DateTime(s)] : s \in CreationTimes}
    \cup {[_id |-> ObjectId("i1"), createdAt |-> TimeString(f, s)] :
            f \in {"naive", "zulu", "garbage"}, s \in CreationTimes}

InitRecency ==
    /\ rec_doc \in RecencySnapshots
    /\ rec_now = 0
    /\ rec_out = NotCalled
    /\ MergeIdle
    /\ HybridIdle
    /\ StoreEmpty
    /\ ServeIdle
    /\ MixIdle
    /\ now = 0

\* compute_recency_score is called on the snapshot.
Recency ==
    /\ rec_out = NotCalled
    /\ \E utcnow \in ClockReadings :
          /\ rec_now' = utcnow
          /\ rec_out' = compute_recency_score(rec_doc, utcnow)
    /\ UNCHANGED <<mixVars, rec_doc, mergeVars, hybVars, storeVars, serveVars, now>>

NextRecency ==
    Recency

SpecRecency ==
    InitRecency /\ [][NextRecency]_vars

\* The snapshot's createdAt is missing, None or empty.
RecencyMissing ==
    "createdAt" \notin DOMAIN rec_doc \/ rec_doc.createdAt.type = "empty"

\* The snapshot's createdAt is a string that is not a timestamp.
RecencyUnparseable ==
    /\ ~RecencyMissing
    /\ rec_doc.createdAt.type = "str"
    /\ rec_doc.createdAt.form = "garbage"

\* The item's age in seconds at the call, for a createdAt that names a time.
RecencyAge ==
    rec_now - rec_doc.createdAt.t

(* C9: compute_recency_score never fails; it returns 0.2 for a missing
   timestamp and for a string that cannot be parsed, and otherwise 1.0 under
   1 hour of age, 0.8 under 24 hours, 0.5 under 72 hours and 0.2 beyond. *)
C9_RecencyStepFunction ==
    rec_out # NotCalled =>
        IF RecencyMissing \/ RecencyUnparseable THEN rec_out = Returned(20)
        ELSE IF RecencyAge < 3600 THEN rec_out = Returned(100)
        ELSE IF RecencyAge < 24 * 3600 THEN rec_out = Returned(80)
        ELSE IF RecencyAge < 72 * 3600 THEN rec_out = Returned(50)
        ELSE rec_out = Returned(20)

\* -------------------------------------- specification: compute_hybrid

\* The clock reading, in seconds, at which compute_hybrid is called.
HybridClock == 1000000

\* The user compute_hybrid scores for, followed users f and g.
HybridFollows ==
    <<[followerId |-> ObjectId("a"), followingId |-> ObjectId("f"), status |-> "active"],
      [followerId |-> ObjectId("a"), followingId |-> ObjectId("g"), status |-> "active"]>>

\* What the like store holds: likes of item i1 by followed users.
HybridLikes ==
    {<<>>,
     <<[userId |-> ObjectId("f"), feedId |-> ObjectId("i1")]>>,
     <<[userId |-> ObjectId("f"), feedId |-> ObjectId("i1")],
       [userId |-> ObjectId("g"), feedId |-> ObjectId("i1")]>>}

\* What the comment store holds: comments on item i1 by followed users.
HybridComments ==
    {<<>>, <<[userId |-> ObjectId("f"), feedId |-> ObjectId("i1")]>>}

\* The feed documents of item i1: popularity absent, 0.4, 1.0 or 1.5, and
\* created 30 minutes, 10, 48 or 200 hours ago, or without createdAt.
HybridDocs ==
    LET base == [_id |-> ObjectId("i1"), userId |-> ObjectId("f"), status |-> "active"]
        withPop == {base} \cup {base @@ [decayedPopularityScore |-> p] : p \in {40, 100, 150}}
    IN  withPop
        \cup {d @@ [createdAt |-> DateTime(HybridClock - 1800 * h)] :
                d \in withPop, h \in {1, 20, 96, 400}}

\* The watch-history store: nothing, or a watch of item i1 of 4 or 5 units.
HybridWatches ==
    {<<>>} \cup {<<[user_id |-> "a", item_id |-> "i1", watch_time |-> w]>> : w \in {4, 5}}

\* The merged records of item i1: cf_score and content_score each absent or
\* given, the snapshot doc attached or not.
HybridCandidates(doc) ==
    LET ids == {[item_id |-> "i1"]}
        withCf == ids \cup {c @@ [cf_score |-> v] : c \in ids, v \in {0, 60, 100}}
        withContent == withCf \cup {c @@ [content_score |-> v] : c \in withCf, v \in {50, 90, 100}}
    IN  withContent \cup {c @@ [feed_data |-> doc] : c \in withContent}

\* A second merged record, of an item without a feed document.
HybridOthers ==
    {<<>>, <<[item_id |-> "i2", content_score |-> 50, category |-> "post"]>>,
     <<[item_id |-> "zz", cf_score |-> 60]>>}

InitHybrid ==
    /\ now = HybridClock
    /\ follows_col = HybridFollows
    /\ likes_col \in HybridLikes
    /\ comments_col \in HybridComments
    /\ feeds_col \in {<<d>> : d \in HybridDocs}
    /\ watch_col \in HybridWatches
    /\ saved_feeds_col = <<>>
    /\ reposts_col = <<>>
    /\ interests_col = <<>>
    /\ explore_feeds_col = <<>>
    /\ related_items_col = <<>>
    /\ gorse = <<>>
    /\ \E c \in HybridCandidates(feeds_col[1]), more \in HybridOthers :
          hyb_in = <<c>> \o more
    /\ hyb_out = NotCalled
    /\ MergeIdle
    /\ RecencyIdle
    /\ ServeIdle
    /\ MixIdle

\* compute_hybrid is called for user a on the merged candidates.
Hybrid ==
    /\ hyb_out = NotCalled
    /\ hyb_out' = compute_hybrid("a", hyb_in, now)
    /\ UNCHANGED <<mixVars, hyb_in, mergeVars, recVars, storeVars, serveVars, now>>

NextHybrid ==
    Hybrid

SpecHybrid ==
    InitHybrid /\ [][NextHybrid]_vars

\* The scored record of item iid in what compute_hybrid returned.
HybridScored(iid) ==
    hyb_out.value[IndexOf(hyb_out.value, iid)]

\* The boost the social store gives item iid: 0.5 per like and 0.3 per
\* comment by a followed user.
HybridFriendBoost(iid) ==
    50 * Cardinality({i \in DOMAIN likes_col : likes_col[i].feedId = ObjectId(iid)})
    + 30 * Cardinality({i \in DOMAIN comments_col : comments_col[i].feedId = ObjectId(iid)})

\* Candidate c's score is the weighted sum of its own cf_score and
\* content_score (0 when absent), some recency step, the scored popularity
\* and the friend boost, times 1.0 or 1.2; scores are in 1e-6 units.
HybridFormula(c) ==
    LET r == HybridScored(c.item_id)
        cf == IF "cf_score" \in DOMAIN c THEN c.cf_score ELSE 0
        content == IF "content_score" \in DOMAIN c THEN c.content_score ELSE 0
    IN  \E recency \in {20, 50, 80, 100}, watch_boost \in {10, 12} :
            r.score = 10 * watch_boost
                        * (35 * cf + 30 * content + 15 * recency
                           + 10 * r.popularity + 10 * HybridFriendBoost(c.item_id))

\* cf_score, content_score, popularity and friend_boost of c lie in [0, 1].
HybridInUnitRange(c) ==
    /\ Get(c, "cf_score", 0) \in 0..100
    /\ Get(c, "content_score", 0) \in 0..100
    /\ HybridScored(c.item_id).popularity \in 0..100
    /\ HybridFriendBoost(c.item_id) \in 0..100

(* C10: for every merged candidate the score compute_hybrid gives is
   (0.35*cf_score + 0.30*content_score + 0.15*recency + 0.10*popularity
   + 0.10*friend_boost) * watch_boost, absent score fields counting as 0 and
   watch_boost being 1.0 or 1.2; with cf_score, content_score, popularity and
   friend_boost in [0, 1] the score lies in [0, 1.2]. *)
C10_HybridScore ==
    hyb_out # NotCalled =>
        /\ ~IsRaised(hyb_out)
        /\ Len(hyb_out.value) = Len(hyb_in)
        /\ \A i \in DOMAIN hyb_in :
              /\ HybridFormula(hyb_in[i])
              /\ HybridInUnitRange(hyb_in[i]) =>
                    HybridScored(hyb_in[i].item_id).score \in 0..1200000

\* A candidate without cf_score, watched for 5 units, every input at its
\* maximum of 1.0: the score is 1.2 * (0.30 + 0.15 + 0.10 + 0.10).
C10_Witness ==
    /\ hyb_out # NotCalled
    /\ "cf_score" \notin DOMAIN hyb_in[1]
    /\ HybridInUnitRange(hyb_in[1])
    /\ HybridScored("i1").score = 780000

\* ------------------------------------------------------ the session cache

\* get_cache_key(user_id, session_id): a session id of None or "" is falsy.
get_cache_key(user_id, session_id) ==
    IF session_id # "" THEN "rec_session:" \o user_id \o ":" \o session_id
    ELSE "rec_latest:" \o user_id

\* hashlib.md5(f"{user_id}{datetime.utcnow()}".encode()).hexdigest()[:16]:
\* a token determined by the user id and the clock reading.
Md5Token(user_id, utcnow) ==
    "md5(" \o user_id \o "@" \o ToString(utcnow) \o ")"

\* json.dumps(recommendations): the text stored in the cache
JsonDumps(list) ==
    [json |-> list]

\* json.loads(text)
JsonLoads(text) ==
    text.json

\* The session_id of a response whose cache write failed (None, JSON null).
NullSession == "<null>"

\* redis_client.get(key): the value of an entry that has not expired
RedisGet(key) ==
    IF key \in DOMAIN redis_data /\ now < redis_data[key].expires
    THEN [found |-> TRUE, value |-> redis_data[key].value]
    ELSE [found |-> FALSE]

\* redis_client.setex that lets the entry live one time unit longer.
RedisSetExLonger(key, ttl, value) ==
    [k \in (DOMAIN redis_data) \cup {key} |->
        IF k = key THEN [value |-> value, expires |-> now + ttl + 1]
        ELSE redis_data[k]]

\* redis_client.setex that appends to the stored list instead of replacing it.
RedisSetExAppend(key, ttl, value) ==
    [k \in (DOMAIN redis_data) \cup {key} |->
        IF k = key
        THEN [value |-> IF key \in DOMAIN redis_data
                        THEN JsonDumps(JsonLoads(redis_data[key].value) \o JsonLoads(value))
                        ELSE value,
              expires |-> now + ttl]
        ELSE redis_data[k]]

\* redis_client.setex(key, ttl, value): the entries after the write
RedisSetEx(key, ttl, value) ==
    [k \in (DOMAIN redis_data) \cup {key} |->
        IF k = key THEN [value |-> value, expires |-> now + ttl]
        ELSE redis_data[k]]

\* get_cached_recommendations(user_id, session_id): the cached list, or
\* nothing (None) when the cache is disabled, unreachable or has no entry.
get_cached_recommendations(user_id, session_id) ==
    IF ~REDIS_AVAILABLE THEN [found |-> FALSE]
    ELSE IF ~redis_up THEN [found |-> FALSE]
    ELSE LET cached == RedisGet(get_cache_key(user_id, session_id))
         IN  IF cached.found
             THEN [found |-> TRUE, list |-> JsonLoads(cached.value)]
             ELSE [found |-> FALSE]

\* cache_recommendations(user_id, recommendations, session_id): the session
\* token it returns.
CacheWriteToken(user_id, session_id) ==
    IF ~REDIS_AVAILABLE
    THEN IF session_id # "" THEN session_id ELSE Md5Token(user_id, now)
    ELSE IF ~redis_up THEN NullSession
    ELSE IF session_id # "" THEN session_id ELSE Md5Token(user_id, now)

\* cache_recommendations(user_id, recommendations, session_id): the entries
\* of the cache store after the call.
CacheWriteData(user_id, recommendations, session_id) ==
    IF ~REDIS_AVAILABLE \/ ~redis_up THEN redis_data
    ELSE RedisSetEx(get_cache_key(user_id, session_id), CACHE_TTL,
                    JsonDumps(recommendations))

\* ------------------------------------- generate_recommendations_for_user

\* The feeds_map of generate_recommendations_for_user: the active feeds the
\* recommender named that are not excluded, keyed by str(_id).
FeedsMap(gorse_items, excluded_items) ==
    LET gorse_object_ids == {ObjectId(gorse_items[i].item_id) :
                               i \in {j \in DOMAIN gorse_items :
                                        ObjectIdValid(gorse_items[j].item_id)}}
        excluded_oids == {ObjectId(x) : x \in {y \in excluded_items : ObjectIdValid(y)}}
        found == SelectSeq(feeds_col,
                           LAMBDA d : /\ d._id \in gorse_object_ids
                                      /\ d._id \notin excluded_oids
                                      /\ d.status = "active")
    IN  [iid \in {Str(found[i]._id) : i \in DOMAIN found} |->
            FirstOrEmpty(SelectSeq(found, LAMBDA d : Str(d._id) = iid))]

\* The records of the recommender's items: those not excluded whose feed
\* the feeds_map holds.
GorseCandidates(gorse_items, feeds_map, excluded_items) ==
    LET kept == SelectSeq(gorse_items,
                          LAMBDA it : /\ it.item_id \notin excluded_items
                                      /\ it.item_id \in DOMAIN feeds_map)
    IN  List([i \in DOMAIN kept |->
                 GorseRecord(kept[i], feeds_map[kept[i].item_id])])

\* The records of the user's related items, best score first, not excluded.
RelatedCandidates(user_id, excluded_items) ==
    LET found == SelectSeq(related_items_col, LAMBDA d : d.user_id = user_id)
        cursor == Take(SortedDesc(found, [i \in DOMAIN found |-> Get(found[i], "score", -1)]),
                       RelatedLimit)
        kept == SelectSeq(cursor, LAMBDA r : Get(r, "related_item_id", NoneId) \notin excluded_items)
    IN  [i \in DOMAIN kept |-> RelatedRecord(kept[i])]

\* The records of the social boosts, not excluded.
SocialCandidates(user_id, excluded_items) ==
    LET kept == SelectSeq(candidate_social_boost(user_id),
                          LAMBDA s : s.item_id \notin excluded_items)
    IN  [i \in DOMAIN kept |-> SocialRecord(kept[i])]

\* The cands list of generate_recommendations_for_user, in source order.
Candidates(user_id, excluded_items) ==
    LET gorse_items == get_gorse_recommendations(user_id)
    IN  candidate_followed_users(user_id, FollowedLimit)
        \o candidate_interest(user_id, InterestLimit)
        \o GorseCandidates(gorse_items, FeedsMap(gorse_items, excluded_items),
                           excluded_items)
        \o candidate_trending(TrendingLimit)
        \o RelatedCandidates(user_id, excluded_items)
        \o SocialCandidates(user_id, excluded_items)

\* "iid in excluded_items" in the loop over gorse_items raises TypeError when
\* the identifier of an entry cannot be hashed.
GorseLoopRaises(gorse_items) ==
    \E i \in DOMAIN gorse_items : gorse_items[i].item_id \in UnhashableIds

\* generate_recommendations_for_user(user_id, excluded_items): the scored
\* recommendations, or the exception the loop over the recommender's items
\* or the scoring raised.
generate_recommendations_for_user(user_id, excluded_items) ==
    IF GorseLoopRaises(get_gorse_recommendations(user_id))
    THEN Raised("TypeError")
    ELSE compute_hybrid(user_id,
                        merge_candidates(<<Candidates(user_id, excluded_items)>>),
                        now)

\* ---------------------------------------------------- personalization mixer

\* rec["is_popular"] = rec.get("popularity", 0) > 0.5
Categorized(recommendations) ==
    List([i \in DOMAIN recommendations |->
            recommendations[i] @@ [is_popular |-> recommendations[i].popularity > 50]])

\* The pairs (total_needed, personalized_ratio in hundredths), among the
\* totals 0..100 and the ratios 0.0, 0.29, 0.5, 0.7 and 1.0 of this model,
\* whose double-precision product lies just below the whole number the exact
\* product is: 90 * 0.7 is 62.99999999999999 and 100 * 0.29 is
\* 28.999999999999996. Every other product of the model is exact or lies
\* on the same side of the next whole number as the exact one.
ProductBelowWhole ==
    {<<90, 70>>, <<100, 29>>}

\* int(total_needed * personalized_ratio): the double product, truncated.
NumPersonalized(total_needed, personalized_ratio) ==
    (total_needed * personalized_ratio) \div 100
    - (IF <<total_needed, personalized_ratio>> \in ProductBelowWhole THEN 1 ELSE 0)

\* The selection without the two slices: every categorized record.
MixedSelectionUncapped(categorized_recs, personalized_ratio) ==
    SelectSeq(categorized_recs, LAMBDA r : ~r.is_popular)
    \o SelectSeq(categorized_recs, LAMBDA r : r.is_popular)

\* personalized_recs[:num_personalized] + popular_recs[:num_popular]
MixedSelection(categorized_recs, personalized_ratio) ==
    LET popular_recs == SelectSeq(categorized_recs, LAMBDA r : r.is_popular)
        personalized_recs == SelectSeq(categorized_recs, LAMBDA r : ~r.is_popular)
        total_needed == Min(Len(categorized_recs), PRELOAD_BUFFER)
        num_personalized == NumPersonalized(total_needed, personalized_ratio)
        num_popular == total_needed - num_personalized
    IN  Take(personalized_recs, num_personalized) \o Take(popular_recs, num_popular)

\* Lists of up to this many elements are shuffled into every order.
MaxShuffleLen == 3

\* The outcomes of random.shuffle(list): every order of its elements; of a
\* list longer than MaxShuffleLen, the orders followed are the list as it
\* is, reversed, and rotated by one.
Shuffles(list) ==
    IF Len(list) <= MaxShuffleLen
    THEN {List([i \in DOMAIN list |-> list[p[i]]]) : p \in Permutations(DOMAIN list)}
    ELSE {list,
          List([i \in DOMAIN list |-> list[Len(list) + 1 - i]]),
          List([i \in DOMAIN list |-> list[(i % Len(list)) + 1]])}

\* The "fill with remainder" step on the shuffled selection.
Backfill(mixed, categorized_recs) ==
    LET total_needed == Min(Len(categorized_recs), PRELOAD_BUFFER)
        remaining == SelectSeq(categorized_recs, LAMBDA r : r \notin Range(mixed))
    IN  IF Len(mixed) < total_needed
        THEN mixed \o Take(remaining, total_needed - Len(mixed))
        ELSE mixed

\* friend_map.get(iid, []): the followed users who liked item iid.
FriendLikedBy(user_id, iid) ==
    IF ~ObjectIdValid(user_id) THEN <<>>
    ELSE LET friends == Following(ObjectId(user_id))
             liked == SelectSeq(likes_col,
                                LAMBDA d : /\ d.userId \in friends
                                           /\ (IF Truthy(d, "targetId") THEN Str(d.targetId)
                                               ELSE FeedIdString(d)) = iid)
         IN  [i \in DOMAIN liked |-> Str(liked[i].userId)]

\* rec.get("feed_data") or feeds_map.get(iid)
FeedOf(rec, feeds_map) ==
    IF rec.feed_data # EmptyDoc THEN rec.feed_data
    ELSE IF rec.item_id \in DOMAIN feeds_map THEN feeds_map[rec.item_id]
    ELSE EmptyDoc

\* feed["createdAt"].isoformat() fails on a createdAt that is a string.
MetadataRaises(feed) ==
    /\ "createdAt" \in DOMAIN feed
    /\ feed.createdAt.type = "str"

\* The metadata of a recommendation: the like count and the created_at text.
Metadata(feed) ==
    [likes |-> Get(feed, "likeCount", 0),
     created_at |-> IF "createdAt" \in DOMAIN feed /\ feed.createdAt.type = "datetime"
                    THEN TimeString("naive", feed.createdAt.t)
                    ELSE EmptyValue]

\* The dict appended to full_list for mixed record rec.
Recommendation(user_id, rec, feeds_map) ==
    LET base == [item_id |-> rec.item_id,
                 score |-> rec.score,
                 category |-> rec.category,
                 friend_liked_by |-> FriendLikedBy(user_id, rec.item_id),
                 popularity |-> rec.popularity,
                 recommendation_type |-> IF rec.is_popular THEN "popular"
                                         ELSE "personalized"]
        feed == FeedOf(rec, feeds_map)
    IN  IF feed # EmptyDoc THEN base @@ [metadata |-> Metadata(feed)] ELSE base

\* The loop without its "skip if user already liked this" test.
FullListUnfiltered(user_id, mixed, feeds_map, liked) ==
    IF \E i \in DOMAIN mixed : MetadataRaises(FeedOf(mixed[i], feeds_map))
    THEN Raised("AttributeError")
    ELSE Returned(List([i \in DOMAIN mixed |->
                          Recommendation(user_id, mixed[i], feeds_map)]))

\* The loop that builds full_list from the mixed list: liked items are
\* skipped; the AttributeError of a string createdAt ends the request.
FullList(user_id, mixed, feeds_map, liked) ==
    LET kept == SelectSeq(mixed, LAMBDA r : r.item_id \notin liked)
    IN  IF \E i \in DOMAIN kept : MetadataRaises(FeedOf(kept[i], feeds_map))
        THEN Raised("AttributeError")
        ELSE Returned(List([i \in DOMAIN kept |->
                              Recommendation(user_id, kept[i], feeds_map)]))

\* ------------------------------------------------- recommend: the request

\* int(text): the integer a decimal text denotes, else ValueError.
IntArg(text) ==
    IF \E n \in -1..(10 * MAX_PAGE_SIZE) : ToString(n) = text
    THEN Returned(CHOOSE n \in -1..(10 * MAX_PAGE_SIZE) : ToString(n) = text)
    ELSE Raised("ValueError")

\* The texts float() accepts among those the requests of this model send,
\* with the float they denote in hundredths.
FloatTexts ==
    ("-0.5" :> -50) @@ ("0.0" :> 0) @@ ("0.29" :> 29) @@ ("0.5" :> 50)
    @@ ("0.7" :> 70)
    @@ ("1.0" :> 100) @@ ("1.5" :> 150)

\* float(text), in hundredths, else ValueError.
FloatArg(text) ==
    IF text \in DOMAIN FloatTexts THEN Returned(FloatTexts[text])
    ELSE Raised("ValueError")

\* text.lower() for the texts of the refresh parameter
Lower(text) ==
    IF text \in {"TRUE", "True", "true"} THEN "true"
    ELSE IF text \in {"FALSE", "False", "false"} THEN "false"
    ELSE text

\* limit clamped from below only.
ClampLimitLowOnly(limit) ==
    IF limit < MIN_PAGE_SIZE THEN MIN_PAGE_SIZE ELSE limit

\* limit after the two clamps of recommend
ClampLimit(limit) ==
    IF limit < MIN_PAGE_SIZE THEN MIN_PAGE_SIZE
    ELSE IF limit > MAX_PAGE_SIZE THEN MAX_PAGE_SIZE
    ELSE limit

\* page after its clamp
ClampPage(page) ==
    IF page < 1 THEN 1 ELSE page

\* max(0.0, min(1.0, personalized_ratio)), in hundredths
ClampRatio(ratio) ==
    Max(0, Min(100, ratio))

\* The locals recommend derives from the query string, or the exception a
\* conversion raises.  A session_id that is absent (None) and one that is
\* empty are both falsy and both kept as "".
ParseArgs(args) ==
    LET page == IntArg(Get(args, "page", "1"))
        limit == IntArg(Get(args, "limit", ToString(DEFAULT_PAGE_SIZE)))
        ratio == FloatArg(Get(args, "personalized_ratio", "0.7"))
    IN  IF IsRaised(page) \/ IsRaised(limit) \/ IsRaised(ratio)
        THEN Raised("ValueError")
        ELSE Returned(
               [page |-> ClampPage(page.value),
                limit |-> ClampLimit(limit.value),
                session_id |-> Get(args, "session_id", ""),
                refresh |-> Lower(Get(args, "refresh", "false")) = "true",
                personalized_ratio |-> ClampRatio(ratio.value),
                start |-> (ClampPage(page.value) - 1) * ClampLimit(limit.value),
                end |-> (ClampPage(page.value) - 1) * ClampLimit(limit.value)
                        + ClampLimit(limit.value)])

\* The exhaustion test with a strict comparison.
CacheExhaustedStrict(end, total_items) ==
    end > total_items /\ total_items < PRELOAD_BUFFER

\* end >= total_items and total_items < PRELOAD_BUFFER
CacheExhausted(end, total_items) ==
    end >= total_items /\ total_items < PRELOAD_BUFFER

\* list[start:end] taken one index early.
PageShifted(list, start, end) ==
    Slice(list, Max(0, start - 1), Max(0, end - 1))

\* list[start:end]
Page(list, start, end) ==
    Slice(list, start, end)

\* The response of a cache hit.
HitResponse(user_id, r, cached) ==
    [status |-> 200,
     user |-> user_id,
     page |-> r.page,
     limit |-> r.limit,
     session_id |-> r.session_id,
     total |-> Len(cached),
     has_more |-> r.end < Len(cached),
     results_count |-> Len(Page(cached, r.start, r.end)),
     recommendations |-> Page(cached, r.start, r.end),
     cache |-> "hit"]

\* The stats of a regeneration.
Stats(full_list, liked, recommendations, personalized_ratio) ==
    [total_popular |->
        Len(SelectSeq(full_list, LAMBDA x : x.recommendation_type = "popular")),
     total_personalized |->
        Len(SelectSeq(full_list, LAMBDA x : x.recommendation_type = "personalized")),
     filtered_already_liked |->
        Cardinality(liked \cap {recommendations[i].item_id : i \in DOMAIN recommendations}),
     personalization_ratio |-> personalized_ratio]

\* The response of a regeneration.
MissResponse(user_id, r, new_session_id) ==
    [status |-> 200,
     user |-> user_id,
     page |-> r.page,
     limit |-> r.limit,
     session_id |-> new_session_id,
     total |-> Len(r.full_list),
     has_more |-> r.end < Len(r.full_list),
     results_count |-> Len(Page(r.full_list, r.start, r.end)),
     recommendations |-> Page(r.full_list, r.start, r.end),
     cache |-> "miss",
     stats |-> r.stats]

\* The response of the except branch.
ErrorResponse(e) ==
    [status |-> 500, error |-> e]

\* A worker that serves no request.
IdleWorker ==
    [pc |-> "idle", user_id |-> "", args |-> EmptyDoc, page |-> 0, limit |-> 0,
     session_id |-> "", refresh |-> FALSE, personalized_ratio |-> 0,
     start |-> 0, end |-> 0, excluded_items |-> {}, user_liked_items |-> {},
     mixed_recommendations |-> <<>>, full_list |-> <<>>,
     stats |-> EmptyDoc, response |-> EmptyDoc]

\* The worker's locals once the query string is parsed.
Parsed(user_id, args, p) ==
    [IdleWorker EXCEPT !.user_id = user_id, !.args = args,
                       !.page = p.page, !.limit = p.limit,
                       !.session_id = p.session_id, !.refresh = p.refresh,
                       !.personalized_ratio = p.personalized_ratio,
                       !.start = p.start, !.end = p.end]

\* recommend, from its entry to the end of the cache check: the worker
\* answers from the cache, or answers 500, or goes on to regenerate.
CacheCheck(user_id, args) ==
    LET parsed == ParseArgs(args)
        r == Parsed(user_id, args, parsed.value)
        cached == get_cached_recommendations(user_id, r.session_id)
    IN  IF IsRaised(parsed)
        THEN [IdleWorker EXCEPT !.pc = "done", !.user_id = user_id, !.args = args,
                                !.response = ErrorResponse(parsed.raised)]
        ELSE IF /\ r.session_id # "" /\ ~r.refresh
                /\ cached.found /\ cached.list # <<>>
                /\ ~CacheExhausted(r.end, Len(cached.list))
        THEN [r EXCEPT !.pc = "done",
                       !.response = HitResponse(user_id, r, cached.list)]
        ELSE [r EXCEPT !.pc = "generate"]

\* The locals of the "generate fresh" part for worker locals r, up to the
\* selection the mixer is about to shuffle.
Pipeline(r) ==
    LET excluded_items == get_user_seen_items(r.user_id)
                          \cup get_user_created_items(r.user_id)
        generated == generate_recommendations_for_user(r.user_id, excluded_items)
        categorized_recs == IF IsRaised(generated) THEN <<>>
                            ELSE Categorized(generated.value)
    IN  [excluded_items |-> excluded_items,
         user_liked_items |-> user_liked_items(r.user_id),
         generated |-> generated,
         feeds_map |-> FeedsMap(get_gorse_recommendations(r.user_id), excluded_items),
         categorized_recs |-> categorized_recs,
         selection |-> MixedSelection(categorized_recs, r.personalized_ratio)]

\* The worker's locals after the rest of the "generate fresh" part, given
\* the locals g so far and the order random.shuffle left the selection in.
Regenerated(r, g, shuffled) ==
    LET mixed == Backfill(shuffled, g.categorized_recs)
        full_list == FullList(r.user_id, mixed, g.feeds_map, g.user_liked_items)
    IN  IF IsRaised(g.generated)
        THEN [r EXCEPT !.pc = "done", !.excluded_items = g.excluded_items,
                       !.response = ErrorResponse(g.generated.raised)]
        ELSE IF IsRaised(full_list)
        THEN [r EXCEPT !.pc = "done", !.excluded_items = g.excluded_items,
                       !.response = ErrorResponse(full_list.raised)]
        ELSE [r EXCEPT !.pc = "write", !.excluded_items = g.excluded_items,
                       !.user_liked_items = g.user_liked_items,
                       !.mixed_recommendations = mixed,
                       !.full_list = full_list.value,
                       !.stats = Stats(full_list.value, g.user_liked_items,
                                       g.generated.value, r.personalized_ratio)]

\* ------------------------------------------------------ serving: actions

\* The number of requests the workers receive in all.
MaxRequests == 2

\* Worker w receives GET /recommend/{user_id}?args and runs recommend up to
\* the end of the cache check.
Receive(w, user_id, args) ==
    /\ req[w].pc \in {"idle", "done"}
    /\ served < MaxRequests
    /\ served' = served + 1
    /\ req' = [req EXCEPT ![w] = CacheCheck(user_id, args)]
    /\ UNCHANGED <<mixVars, cacheVars, storeVars, now, mergeVars, recVars, hybVars>>

\* Worker w runs the "generate fresh" part of recommend, up to full_list.
Generate(w) ==
    /\ req[w].pc = "generate"
    /\ LET g == Pipeline(req[w])
       IN  \E shuffled \in Shuffles(g.selection) :
              req' = [req EXCEPT ![w] = Regenerated(req[w], g, shuffled)]
    /\ UNCHANGED <<mixVars, served, cacheVars, storeVars, now, mergeVars, recVars, hybVars>>

\* Worker w calls cache_recommendations and answers.
Write(w) ==
    /\ req[w].pc = "write"
    /\ redis_data' = CacheWriteData(req[w].user_id, req[w].full_list,
                                    req[w].session_id)
    /\ req' = [req EXCEPT ![w] =
                 [@ EXCEPT !.pc = "done",
                           !.response = MissResponse(req[w].user_id, req[w],
                                           CacheWriteToken(req[w].user_id,
                                                           req[w].session_id))]]
    /\ UNCHANGED <<mixVars, served, REDIS_AVAILABLE, redis_up, storeVars, now,
                   mergeVars, recVars, hybVars>>

\* ------------------------------------------------- serving: environment

\* The clock readings, in seconds, at which the model observes the system.
ServeClock == {0, 600}

\* The clock advances to the later reading t; the cache store drops the
\* entries that have expired by then.
TickTo(t) ==
    /\ t > now
    /\ now' = t
    /\ redis_data' = [k \in {x \in DOMAIN redis_data : t < redis_data[x].expires}
                        |-> redis_data[k]]
    /\ UNCHANGED <<mixVars, REDIS_AVAILABLE, redis_up, req, served, storeVars,
                   mergeVars, recVars, hybVars>>

\* The clock advances to a later reading of ServeClock.
Tick ==
    \E t \in ServeClock : TickTo(t)

\* The cache store becomes unreachable.
RedisDown ==
    /\ redis_up
    /\ redis_up' = FALSE
    /\ UNCHANGED <<mixVars, REDIS_AVAILABLE, redis_data, req, served, storeVars, now,
                   mergeVars, recVars, hybVars>>

\* The cache store becomes reachable again.
RedisUp ==
    /\ ~redis_up
    /\ redis_up' = TRUE
    /\ UNCHANGED <<mixVars, REDIS_AVAILABLE, redis_data, req, served, storeVars, now,
                   mergeVars, recVars, hybVars>>

\* The main application records that user_id liked item iid (once).
Like(user_id, iid) ==
    /\ iid \notin user_liked_items(user_id)
    /\ likes_col' = Append(likes_col,
                           [userId |-> ObjectId(user_id), feedId |-> ObjectId(iid)])
    /\ UNCHANGED <<mixVars, feeds_col, comments_col, saved_feeds_col, reposts_col,
                   follows_col, watch_col, interests_col, explore_feeds_col,
                   related_items_col, gorse, now, serveVars,
                   mergeVars, recVars, hybVars>>

\* ---------------------------------------------------- request parameters

\* A query parameter the request does not carry.
Absent == "<absent>"

\* The one-parameter query string key=text, empty when the text is Absent.
Arg(key, text) ==
    IF text = Absent THEN EmptyDoc ELSE (key :> text)

\* The query strings with the given choices for each parameter.
QueryStrings(pages, limits, sessions, refreshes, ratios) ==
    {Arg("page", p) @@ Arg("limit", l) @@ Arg("session_id", s)
       @@ Arg("refresh", f) @@ Arg("personalized_ratio", x) :
       p \in pages, l \in limits, s \in sessions, f \in refreshes, x \in ratios}

\* The session tokens the responses held by the workers carry.
IssuedSessions ==
    {req[w].response.session_id :
       w \in {v \in DOMAIN req : /\ req[v].pc = "done"
                                 /\ req[v].response.status = 200}}
    \ {NullSession}

\* ------------------------------------ specification: concurrent serving

\* The workers that serve requests concurrently.
Workers == {"w1", "w2"}

\* The users that send requests.
UserIds == {"a"}

\* The feed items of the catalogue.
ServeItems == <<"i1", "i2", "i3", "i4", "i5", "i6", "i7">>

\* The items a user comes to like while the model runs.
LikeItems == {"i7"}

\* The feed document of catalogue item k, by author g; the first two items
\* are popular (decayedPopularityScore 0.8).
ServeFeed(k) ==
    [_id |-> ObjectId(ServeItems[k]), userId |-> ObjectId("g"),
     status |-> "active", likeCount |-> k,
     decayedPopularityScore |-> IF k <= 2 THEN 80 ELSE 0]

\* How the recommender answers: the catalogue, best first.
ServeGorse ==
    [outcome |-> "response", status |-> 200,
     body |-> [json |-> TRUE, list |-> TRUE,
               items |-> [k \in DOMAIN ServeItems |->
                            [Id |-> ServeItems[k], Score |-> 100 - 10 * k]]]]

\* The process has started: connect_redis has set REDIS_AVAILABLE to whether
\* the cache store answered its ping; the cache is empty, no request is
\* being served.
Init ==
    /\ now = 0
    /\ feeds_col = [k \in DOMAIN ServeItems |-> ServeFeed(k)]
    /\ gorse = [u \in UserIds |-> ServeGorse]
    /\ likes_col = <<>>
    /\ comments_col = <<>>
    /\ saved_feeds_col = <<>>
    /\ reposts_col = <<>>
    /\ follows_col = <<>>
    /\ watch_col = <<>>
    /\ interests_col = <<>>
    /\ explore_feeds_col = <<>>
    /\ related_items_col = <<>>
    /\ redis_up \in BOOLEAN
    /\ REDIS_AVAILABLE = redis_up
    /\ redis_data = EmptyDoc
    /\ req = [w \in Workers |-> IdleWorker]
    /\ served = 0
    /\ MergeIdle
    /\ RecencyIdle
    /\ HybridIdle
    /\ MixIdle

\* The query strings of the concurrent requests.
ServeQueries ==
    QueryStrings({Absent}, {"5"}, {Absent, "s1"} \cup IssuedSessions,
                 {Absent}, {"0.0"})

Next ==
    \/ \E w \in DOMAIN req, user_id \in UserIds, args \in ServeQueries :
          Receive(w, user_id, args)
    \/ \E w \in DOMAIN req : Generate(w)
    \/ \E w \in DOMAIN req : Write(w)
    \/ Tick
    \/ RedisDown
    \/ RedisUp
    \/ \E user_id \in UserIds, iid \in LikeItems : Like(user_id, iid)

Spec ==
    Init /\ [][Next]_vars

\* ----------------------------------------- properties: concurrent serving

\* The step is worker w ending its cache check (it has received a request).
ReceivedBy(w) ==
    /\ served' = served + 1
    /\ req'[w] # req[w]

\* The step is worker w's cache write and answer.
WrittenBy(w) ==
    /\ req[w].pc = "write"
    /\ req'[w].pc = "done"

\* The cache store cannot be used: it was unreachable at startup, or is now.
Unreachable ==
    ~REDIS_AVAILABLE \/ ~redis_up

\* A read for worker w's user and the session id of w's response finds the
\* list w generated.
ReadsBack(w) ==
    get_cached_recommendations(req[w].user_id, req[w].response.session_id)
      = [found |-> TRUE, list |-> req[w].full_list]

\* C4: whenever a regeneration answers with session id S while the cache is
\* reachable, right after its write (no overwrite, no time passed) a read
\* for the same user and session id S finds exactly the list it wrote.
C4_SessionTokenReadsBack ==
    [][\A w \in DOMAIN req :
          (WrittenBy(w) /\ ~Unreachable) => ReadsBack(w)']_vars

\* C5: while the cache store is unreachable, a request is never answered
\* from the cache (the read reports absent and the pipeline runs), and the
\* cache write leaves the store alone, does not fail the request, and
\* returns a session token that is not null; the response reports "miss".
C5_DegradedMode ==
    [][\A w \in DOMAIN req :
          /\ (ReceivedBy(w) /\ Unreachable /\ ~IsRaised(ParseArgs(req'[w].args)))
                => req'[w].pc = "generate"
          /\ (WrittenBy(w) /\ Unreachable)
                => /\ req'[w].response.status = 200
                   /\ req'[w].response.cache = "miss"
                   /\ req'[w].response.session_id # NullSession
                   /\ redis_data' = redis_data]_vars

\* C6: every change of a cache entry is the write of one worker and leaves
\* under the key exactly the complete list that worker's pipeline run
\* produced (no other entry changes, nothing is appended or merged); and a
\* request answered from the cache is answered from one such stored list.
C6_LastWriteWins ==
    [][/\ \A key \in DOMAIN redis_data' :
             (key \notin DOMAIN redis_data \/ redis_data'[key] # redis_data[key])
             => \E w \in DOMAIN req :
                   /\ WrittenBy(w)
                   /\ key = get_cache_key(req[w].user_id, req[w].session_id)
                   /\ JsonLoads(redis_data'[key].value) = req[w].full_list
       /\ \A w \in DOMAIN req :
             (ReceivedBy(w) /\ req'[w].pc = "done" /\ req'[w].response.status = 200)
             => LET key == get_cache_key(req'[w].user_id, req'[w].session_id)
                    stored == JsonLoads(redis_data[key].value)
                IN  /\ key \in DOMAIN redis_data
                    /\ req'[w].response.total = Len(stored)
                    /\ req'[w].response.recommendations
                         = SubSeq(stored, req'[w].start + 1, Min(Len(stored), req'[w].end))]_vars

\* Two workers have regenerated the same key with different lists, and the
\* entry under the key is the complete list of one of them.
C6_Witness ==
    \E w1 \in DOMAIN req, w2 \in DOMAIN req :
       /\ w1 # w2
       /\ req[w1].pc = "done" /\ req[w1].response.status = 200
       /\ req[w2].pc = "done" /\ req[w2].response.status = 200
       /\ req[w1].response.cache = "miss" /\ req[w2].response.cache = "miss"
       /\ get_cache_key(req[w1].user_id, req[w1].session_id)
            = get_cache_key(req[w2].user_id, req[w2].session_id)
       /\ req[w1].full_list # req[w2].full_list
       /\ Len(req[w1].full_list) > 0 /\ Len(req[w2].full_list) > 0
       /\ LET read == RedisGet(get_cache_key(req[w1].user_id, req[w1].session_id))
          IN  /\ read.found
              /\ JsonLoads(read.value) = req[w2].full_list

\* ---------------------------------------------- specification: pagination

\* The identifier of catalogue item k.
ItemName(k) ==
    "i" \o ToString(k)

\* The lengths of the list the session's cache entry holds.
PageLens == {0, 6, 8, 10, 25, 99, 100}

\* The session the paginated requests belong to.
PageSession == "s1"

\* A catalogue of n feed items by author g.
PageFeeds(n) ==
    [k \in 1..n |-> [_id |-> ObjectId(ItemName(k)), userId |-> ObjectId("g"),
                     status |-> "active"]]

\* How the recommender answers for a catalogue of n items.
PageGorse(n) ==
    [outcome |-> "response", status |-> 200,
     body |-> [json |-> TRUE, list |-> TRUE,
               items |-> [k \in 1..n |-> [Id |-> ItemName(k), Score |-> 100]]]]

\* The process has started with a catalogue of n feed items; the cache is
\* reachable and empty.
InitPage ==
    /\ now = 0
    /\ \E n \in PageLens :
          /\ feeds_col = PageFeeds(n)
          /\ gorse = [u \in UserIds |-> PageGorse(n)]
    /\ likes_col = <<>>
    /\ comments_col = <<>>
    /\ saved_feeds_col = <<>>
    /\ reposts_col = <<>>
    /\ follows_col = <<>>
    /\ watch_col = <<>>
    /\ interests_col = <<>>
    /\ explore_feeds_col = <<>>
    /\ related_items_col = <<>>
    /\ REDIS_AVAILABLE = TRUE
    /\ redis_up = TRUE
    /\ redis_data = EmptyDoc
    /\ req = [w \in {"w1"} |-> IdleWorker]
    /\ served = 0
    /\ MergeIdle
    /\ RecencyIdle
    /\ HybridIdle
    /\ MixIdle

\* The query strings of the paginated requests.
PageQueries ==
    QueryStrings({Absent, "0", "2", "3", "5", "7"}, {Absent, "3", "5", "15", "25"},
                 {PageSession}, {Absent, "TRUE"}, {"0.0"})

NextPage ==
    \/ \E w \in DOMAIN req, args \in PageQueries : Receive(w, "a", args)
    \/ \E w \in DOMAIN req : Generate(w)
    \/ \E w \in DOMAIN req : Write(w)
    \/ Like("a", ItemName(1))

SpecPage ==
    InitPage /\ [][NextPage]_vars

\* ------------------------------------------------- properties: pagination

\* The step is worker w ending its cache check for a request that carries a
\* session id and no refresh, the key of which the cache holds.
ReceivedForCached(w) ==
    /\ ReceivedBy(w)
    /\ ~Unreachable
    /\ ~IsRaised(ParseArgs(req'[w].args))
    /\ req'[w].session_id # ""
    /\ ~req'[w].refresh
    /\ RedisGet(get_cache_key(req'[w].user_id, req'[w].session_id)).found

\* The list the cache holds under the key of worker w's request.
CachedFor(r) ==
    JsonLoads(RedisGet(get_cache_key(r.user_id, r.session_id)).value)

\* list[(p-1)*l : min(p*l, n)], n the length of the list
PageItems(list, p, l) ==
    SubSeq(list, (p - 1) * l + 1, Min(p * l, Len(list)))

\* C2: a request with a session id and no refresh whose key the cache holds
\* with a list of length n is answered as a hit, without pipeline run or
\* cache write, iff not (page*limit >= n and n < 100); otherwise it goes on
\* to regenerate.
C2_HitIffNotExhausted ==
    [][\A w \in DOMAIN req :
          ReceivedForCached(w) =>
             LET n == Len(CachedFor(req'[w]))
                 exhausted == req'[w].page * req'[w].limit >= n /\ n < 100
             IN  /\ ~exhausted => /\ req'[w].pc = "done"
                                  /\ req'[w].response.status = 200
                                  /\ req'[w].response.cache = "hit"
                                  /\ redis_data' = redis_data
                 /\ exhausted => req'[w].pc = "generate"]_vars

\* The cache holds 8 items and the request page=1, limit=10 regenerates.
C2_Witness ==
    \E w \in DOMAIN req :
       /\ req[w].pc = "generate"
       /\ req[w].session_id = PageSession /\ ~req[w].refresh
       /\ req[w].page = 1 /\ req[w].limit = 10
       /\ RedisGet(get_cache_key(req[w].user_id, req[w].session_id)).found
       /\ Len(CachedFor(req[w])) = 8

\* The response r answers page p, limit l from list.
AnswersFrom(r, list, p, l) ==
    /\ r.status = 200
    /\ r.recommendations = PageItems(list, p, l)
    /\ r.total = Len(list)
    /\ r.has_more = (p * l < Len(list))

\* C3 as claimed: a request with a session id and no refresh is answered
\* with the items [(p-1)*l, min(p*l, n)) of the list of length n the cache
\* holds for the session, total n and has_more = (p*l < n), the final
\* partial page included.
C3_PageOfCachedList ==
    [][\A w \in DOMAIN req :
          /\ ReceivedForCached(w) /\ req'[w].pc = "done"
                => AnswersFrom(req'[w].response, CachedFor(req'[w]),
                               req'[w].page, req'[w].limit)
          /\ (/\ WrittenBy(w) /\ req[w].session_id # "" /\ ~req[w].refresh
              /\ ~Unreachable
              /\ RedisGet(get_cache_key(req[w].user_id, req[w].session_id)).found)
                => AnswersFrom(req'[w].response, CachedFor(req[w]),
                               req[w].page, req[w].limit)]_vars

\* C3 amended: a request with a session id and no refresh that is answered
\* from the cache (which it is unless page*limit >= n and n < 100) gets the
\* cached items [(p-1)*l, min(p*l, n)), total n and has_more = (p*l < n);
\* a request that regenerates gets that slice of the list it generated.
C3_PageOfServedList ==
    [][\A w \in DOMAIN req :
          /\ ReceivedForCached(w)
                => LET cached == CachedFor(req'[w])
                       n == Len(cached)
                   IN  IF req'[w].page * req'[w].limit >= n /\ n < 100
                       THEN req'[w].pc = "generate"
                       ELSE /\ req'[w].pc = "done"
                            /\ AnswersFrom(req'[w].response, cached,
                                           req'[w].page, req'[w].limit)
          /\ WrittenBy(w)
                => AnswersFrom(req'[w].response, req[w].full_list,
                               req[w].page, req[w].limit)]_vars

\* A hit on the cached list of 25 items: page=2, limit=10 got the cached
\* items [10:20) with has_more true.
C3_Witness ==
    \E w \in DOMAIN req :
       /\ req[w].pc = "done"
       /\ req[w].response.status = 200
       /\ req[w].response.cache = "hit"
       /\ req[w].page = 2 /\ req[w].limit = 10
       /\ Len(CachedFor(req[w])) = 25
       /\ req[w].response.recommendations = SubSeq(CachedFor(req[w]), 11, 20)
       /\ req[w].response.has_more

\* ------------------------------------------ specification: the pipeline

\* The feed items of the pipeline runs.
PipeItems == {"i1", "i2"}

\* The candidate source an item reaches the pipeline through.
Sources == {"followed", "interest", "gorse", "trending", "related", "social"}

\* What the requesting user a has done with an item.
Interactions ==
    {"none", "liked", "commented", "saved", "reposted", "watched", "authored"}

\* PipeItems in a fixed order.
PipeOrder == <<"i1", "i2">>

\* The feed document of item iid, given the source and the interaction of
\* every item.
PipeFeed(iid, src, act) ==
    [_id |-> ObjectId(iid),
     userId |-> ObjectId(IF act[iid] = "authored" THEN "a"
                         ELSE IF src[iid] = "followed" THEN "f" ELSE "g"),
     status |-> "active",
     hashtags |-> IF src[iid] = "interest" THEN {"t"} ELSE {},
     createdAt |-> DateTime(HybridClock - 7200)]

\* The items, in PipeOrder, whose source is s.
FromSource(src, s) ==
    SelectSeq(PipeOrder, LAMBDA iid : src[iid] = s)

\* The items, in PipeOrder, with which user a has interaction x.
WithInteraction(act, x) ==
    SelectSeq(PipeOrder, LAMBDA iid : act[iid] = x)

\* The process has started; user a follows f and is interested in tag t;
\* every item has one candidate source and one interaction of user a.
InitPipeline ==
    /\ now = HybridClock
    /\ \E src \in [PipeItems -> Sources], act \in [PipeItems -> Interactions] :
          /\ feeds_col = [k \in DOMAIN PipeOrder |-> PipeFeed(PipeOrder[k], src, act)]
          /\ gorse = [u \in UserIds |->
                        [outcome |-> "response", status |-> 200,
                         body |-> [json |-> TRUE, list |-> TRUE,
                                   items |-> [k \in DOMAIN FromSource(src, "gorse") |->
                                                [Id |-> FromSource(src, "gorse")[k],
                                                 Score |-> 90]]]]]
          /\ explore_feeds_col =
                [k \in DOMAIN FromSource(src, "trending") |->
                    [feedId |-> ObjectId(FromSource(src, "trending")[k]),
                     status |-> "active", popularityScore |-> 70]]
          /\ related_items_col =
                [k \in DOMAIN FromSource(src, "related") |->
                    [user_id |-> "a",
                     related_item_id |-> FromSource(src, "related")[k],
                     score |-> 50]]
          /\ likes_col =
                [k \in DOMAIN FromSource(src, "social") |->
                    [userId |-> ObjectId("f"),
                     feedId |-> ObjectId(FromSource(src, "social")[k])]]
                \o [k \in DOMAIN WithInteraction(act, "liked") |->
                      [userId |-> ObjectId("a"),
                       feedId |-> ObjectId(WithInteraction(act, "liked")[k])]]
          /\ comments_col =
                [k \in DOMAIN WithInteraction(act, "commented") |->
                    [userId |-> ObjectId("a"),
                     feedId |-> ObjectId(WithInteraction(act, "commented")[k])]]
          /\ saved_feeds_col =
                [k \in DOMAIN WithInteraction(act, "saved") |->
                    [userId |-> ObjectId("a"),
                     feedId |-> ObjectId(WithInteraction(act, "saved")[k])]]
          /\ reposts_col =
                [k \in DOMAIN WithInteraction(act, "reposted") |->
                    [userId |-> ObjectId("a"),
                     originalFeedId |-> ObjectId(WithInteraction(act, "reposted")[k])]]
          /\ watch_col =
                [k \in DOMAIN WithInteraction(act, "watched") |->
                    [user_id |-> "a",
                     item_id |-> WithInteraction(act, "watched")[k],
                     watch_time |-> 10]]
    /\ follows_col = <<[followerId |-> ObjectId("a"), followingId |-> ObjectId("f"),
                        status |-> "active"]>>
    /\ interests_col = <<[userId |-> ObjectId("a"), interests |-> {"t"}]>>
    /\ redis_up \in BOOLEAN
    /\ REDIS_AVAILABLE = redis_up
    /\ redis_data = EmptyDoc
    /\ req = [w \in {"w1"} |-> IdleWorker]
    /\ served = 0
    /\ MergeIdle
    /\ RecencyIdle
    /\ HybridIdle
    /\ MixIdle

\* The query strings of the requests that run the pipeline.
PipeQueries ==
    QueryStrings({Absent}, {Absent}, {Absent}, {Absent}, {Absent, "0.0", "1.0"})

\* One request runs the pipeline from its receipt to its answer.
NextPipeline ==
    \/ \E w \in DOMAIN req, args \in PipeQueries :
          /\ req[w].pc = "idle"
          /\ Receive(w, "a", args)
    \/ \E w \in DOMAIN req : Generate(w)
    \/ \E w \in DOMAIN req : Write(w)

SpecPipeline ==
    InitPipeline /\ [][NextPipeline]_vars

\* ------------------------------------------------ properties: exclusion

\* C1: no item of the user's exclusion set (liked, commented on, saved,
\* reposted, watched or authored) is in the list a regeneration caches and
\* returns, whichever source produced it.
C1_NoExcludedItemServed ==
    \A w \in DOMAIN req :
       (req[w].pc \in {"write", "done"} /\ req[w].excluded_items # {})
       => /\ \A i \in DOMAIN req[w].full_list :
                req[w].full_list[i].item_id \notin req[w].excluded_items
          /\ (req[w].pc = "done" /\ req[w].response.status = 200)
                => \A i \in DOMAIN req[w].response.recommendations :
                      req[w].response.recommendations[i].item_id
                         \notin req[w].excluded_items


\* -------------------------------------- compute_hybrid: the order returned

\* The item ids of the records of list, in list order.
ItemIds(list) ==
    List([i \in DOMAIN list |-> list[i].item_id])

(* C11: the list compute_hybrid returns holds exactly the merged candidates,
   each once, in non-increasing order of score, and two records with the
   same score stand in the order their candidates had in the merged list. *)
C11_HybridSortedStable ==
    (hyb_out # NotCalled /\ ~IsRaised(hyb_out)) =>
        LET out == hyb_out.value
        IN  /\ Len(out) = Len(hyb_in)
            /\ Range(ItemIds(out)) = Range(ItemIds(hyb_in))
            /\ \A i, j \in DOMAIN out :
                  i < j =>
                     /\ out[i].score >= out[j].score
                     /\ out[i].score = out[j].score =>
                           IndexOf(hyb_in, out[i].item_id)
                             < IndexOf(hyb_in, out[j].item_id)

\* Two merged candidates got the same score and were returned in merge order.
C11_Witness ==
    /\ hyb_out # NotCalled
    /\ ~IsRaised(hyb_out)
    /\ Len(hyb_out.value) = 2
    /\ hyb_out.value[1].score = hyb_out.value[2].score
    /\ ItemIds(hyb_out.value) = ItemIds(hyb_in)

\* -------------------------------------- specification: the mixer

\* The scored record of the k-th best item, popular (popularity 0.8) or
\* not (0.2), as compute_hybrid returns it.
MixRecord(k, popular) ==
    [item_id |-> ItemName(k),
     score |-> 1000000 - 1000 * k,
     category |-> "post",
     popularity |-> IF popular THEN 80 ELSE 20,
     feed_data |-> EmptyDoc]

\* How many popular and how many personalized items the scored list holds.
MixSizes ==
    ((0..3) \X (0..3)) \cup {<<60, 40>>, <<72, 29>>, <<27, 63>>, <<50, 60>>}

\* The ratios the clamp of recommend lets through in this model.
MixRatios ==
    {0, 29, 50, 70, 100}

\* A scored list of popular and personalized items in score order, the
\* popular ones ranked first or last.
MixLists ==
    {List([k \in 1..(s[1] + s[2]) |->
             MixRecord(k, IF first THEN k <= s[1] ELSE k > s[2])]) :
        s \in MixSizes, first \in BOOLEAN}

InitMix ==
    /\ mix_in \in MixLists
    /\ mix_ratio \in MixRatios
    /\ mix_out = NotCalled
    /\ now = 0
    /\ StoreEmpty
    /\ MergeIdle
    /\ RecencyIdle
    /\ HybridIdle
    /\ ServeIdle

\* The categorize, select, shuffle and backfill steps of recommend.
Mix ==
    /\ mix_out = NotCalled
    /\ LET categorized_recs == Categorized(mix_in)
       IN  \E shuffled \in Shuffles(MixedSelection(categorized_recs, mix_ratio)) :
              mix_out' = Returned(Backfill(shuffled, categorized_recs))
    /\ UNCHANGED <<mix_in, mix_ratio, mergeVars, recVars, hybVars, storeVars,
                   serveVars, now>>

NextMix ==
    Mix

SpecMix ==
    InitMix /\ [][NextMix]_vars

\* The personalized (popular = FALSE) or popular records of the scored list.
MixBucket(popular) ==
    SelectSeq(Categorized(mix_in), LAMBDA r : r.is_popular = popular)

\* min(len(scored), 100)
MixTotalNeeded ==
    Min(Len(mix_in), PRELOAD_BUFFER)

\* floor(total_needed * r), the product taken exactly.
MixFloor ==
    (MixTotalNeeded * mix_ratio) \div 100

\* The mixed list is made as the select-shuffle-backfill steps are described
\* with num_personalized personalized items asked for: total_needed entries,
\* none twice; first, in some order, the first min(num_personalized,
\* #personalized) personalized items and the first min(total_needed -
\* num_personalized, #popular) popular ones; then the backfill, the scored
\* items not yet included, in score order.
MixedAsDescribed(num_personalized) ==
    LET out == mix_out.value
        personalized == Take(MixBucket(FALSE), num_personalized)
        popular == Take(MixBucket(TRUE), MixTotalNeeded - num_personalized)
        head == Len(personalized) + Len(popular)
        selected == Range(personalized) \cup Range(popular)
        remaining == SelectSeq(Categorized(mix_in), LAMBDA r : r \notin selected)
    IN  /\ Len(out) = MixTotalNeeded
        /\ Cardinality(Range(ItemIds(out))) = Len(out)
        /\ Range(Take(out, head)) = selected
        /\ SubSeq(out, head + 1, Len(out)) = Take(remaining, MixTotalNeeded - head)

(* C12: after the select-shuffle-backfill steps the mixed list has exactly
   total_needed = min(len(scored), 100) entries, no item twice: the first
   min(floor(total_needed*r), #personalized) personalized items, the first
   min(total_needed - floor(total_needed*r), #popular) popular items and,
   after that shuffled part, the backfill from the scored items not yet
   included, in score order. *)
C12_MixedList ==
    mix_out # NotCalled => MixedAsDescribed(MixFloor)

\* ------------------------------------------- properties: the liked filter

\* The items the like store records as liked by user_id.
StoreLikedBy(user_id) ==
    {Str(IF Truthy(likes_col[i], "targetId") THEN likes_col[i].targetId
         ELSE likes_col[i].feedId) :
        i \in {j \in DOMAIN likes_col :
                 /\ likes_col[j].userId = ObjectId(user_id)
                 /\ (Truthy(likes_col[j], "targetId") \/ Truthy(likes_col[j], "feedId"))}}

\* Worker w has regenerated: it is about to write its list, or has answered
\* with a miss.
HasRegenerated(w) ==
    \/ req[w].pc = "write"
    \/ /\ req[w].pc = "done"
       /\ req[w].response.status = 200
       /\ req[w].response.cache = "miss"

(* C13: no item the like store records as liked by the requesting user when
   the list is regenerated is in the list the regeneration writes to the
   cache or in the page it returns, and the other mixed items are all in the
   list, in their mixed order.  (The stores do not change in SpecPipeline.) *)
C13_NoLikedItemServed ==
    \A w \in DOMAIN req :
       HasRegenerated(w) =>
          LET liked == StoreLikedBy(req[w].user_id)
          IN  /\ ItemIds(req[w].full_list)
                   = SelectSeq(ItemIds(req[w].mixed_recommendations),
                               LAMBDA iid : iid \notin liked)
              /\ \A k \in DOMAIN redis_data :
                    /\ JsonLoads(redis_data[k].value) = req[w].full_list
                    /\ Range(ItemIds(JsonLoads(redis_data[k].value))) \cap liked = {}
              /\ req[w].pc = "done" =>
                    /\ Range(ItemIds(req[w].response.recommendations)) \cap liked = {}
                    /\ req[w].response.recommendations
                          = Page(req[w].full_list, req[w].start, req[w].end)

\* A regeneration whose mixed list held a liked item and another item has
\* written its list to the cache and answered.
C13_Witness ==
    \E w \in DOMAIN req :
       /\ req[w].pc = "done"
       /\ HasRegenerated(w)
       /\ Range(ItemIds(req[w].mixed_recommendations)) \cap StoreLikedBy(req[w].user_id) # {}
       /\ req[w].response.recommendations # <<>>
       /\ redis_data # EmptyDoc

\* -------------------------- specification: failing external dependencies

\* The entries a recommender response can hold: a well-formed one for item
\* i2, one under another key name, one without identifier, a bare
\* identifier, a bare string that is no item id, and one whose identifier
\* is a JSON array.
FailEntries ==
    {[Id |-> "i2", Score |-> 90], [ItemId |-> "i2"], [Score |-> 50],
     [bare |-> "i2"], [bare |-> "zz"], [Id |-> "<list>", Score |-> 90]}

\* The bodies of a recommender response: not JSON, JSON but no list, and
\* lists of at most two entries, the second one well-formed.
FailBodies ==
    {[json |-> FALSE], [json |-> TRUE, list |-> FALSE],
     [json |-> TRUE, list |-> TRUE, items |-> <<>>]}
    \cup {[json |-> TRUE, list |-> TRUE, items |-> <<it>>] : it \in FailEntries}
    \cup {[json |-> TRUE, list |-> TRUE, items |-> <<it, [Id |-> "i2", Score |-> 90]>>] :
            it \in FailEntries}

\* How the recommender answers: a timeout or transport failure, a status
\* other than 200 with some body, or 200 with any of the bodies.
FailAnswers ==
    {[outcome |-> "error"]}
    \cup {[outcome |-> "response", status |-> s, body |-> [json |-> FALSE]] :
            s \in {204, 404, 500}}
    \cup {[outcome |-> "response", status |-> 200, body |-> b] : b \in FailBodies}

\* The feed of item iid by author, two hours old.
FailFeed(iid, author) ==
    [_id |-> ObjectId(iid), userId |-> ObjectId(author), status |-> "active",
     createdAt |-> DateTime(HybridClock - 7200)]

\* The process has started; user a follows f, who wrote item i1; item i2 is
\* by g; the recommender answers in one of the ways of FailAnswers; the cache
\* store was reachable at startup or not.
InitFailure ==
    /\ now = HybridClock
    /\ feeds_col = <<FailFeed("i1", "f"), FailFeed("i2", "g")>>
    /\ gorse \in [UserIds -> FailAnswers]
    /\ follows_col = <<[followerId |-> ObjectId("a"), followingId |-> ObjectId("f"),
                        status |-> "active"]>>
    /\ likes_col = <<>>
    /\ comments_col = <<>>
    /\ saved_feeds_col = <<>>
    /\ reposts_col = <<>>
    /\ watch_col = <<>>
    /\ interests_col = <<>>
    /\ explore_feeds_col = <<>>
    /\ related_items_col = <<>>
    /\ redis_up \in BOOLEAN
    /\ REDIS_AVAILABLE = redis_up
    /\ redis_data = EmptyDoc
    /\ req = [w \in {"w1"} |-> IdleWorker]
    /\ served = 0
    /\ MergeIdle
    /\ RecencyIdle
    /\ HybridIdle
    /\ MixIdle

\* The query strings of the requests: with and without a session id.
FailQueries ==
    QueryStrings({Absent}, {Absent}, {Absent, "s1"}, {Absent}, {Absent})

\* Requests are served while the cache store goes down and comes back.
NextFailure ==
    \/ \E w \in DOMAIN req, user_id \in UserIds, args \in FailQueries :
          Receive(w, user_id, args)
    \/ \E w \in DOMAIN req : Generate(w)
    \/ \E w \in DOMAIN req : Write(w)
    \/ RedisDown
    \/ RedisUp

SpecFailure ==
    InitFailure /\ [][NextFailure]_vars

\* The recommender does not answer user_id with a usable list: timeout or
\* transport failure, a status other than 200, or a body that is no JSON
\* list.
RecommenderFails(user_id) ==
    \/ gorse[user_id].outcome = "error"
    \/ gorse[user_id].status # 200
    \/ ~gorse[user_id].body.json
    \/ ~gorse[user_id].body.list

(* C14: when the recommender times out, fails, answers with a status other
   than 200 or with a body that is no list, the adapter contributes no
   candidate; entries whose identifier is no item id are skipped; a failing
   cache read or write acts as absent or no-op; and whatever the recommender
   and the cache store do, a request completes with a successful response
   holding the items of the remaining sources, never with a failure. *)
C14_DependencyFailuresTolerated ==
    \A w \in DOMAIN req :
       /\ (req[w].pc # "idle" /\ RecommenderFails(req[w].user_id))
             => get_gorse_recommendations(req[w].user_id) = <<>>
       /\ req[w].pc = "done"
             => /\ req[w].response.status = 200
                /\ req[w].response.cache = "miss"
                      => /\ "i1" \in Range(ItemIds(req[w].full_list))
                         /\ Range(ItemIds(req[w].full_list)) \subseteq HexIds

\* ------------------------------------ specification: the entry lifetime

\* The clock readings of the lifetime runs: a write, half a lifetime later,
\* a whole one, one and a half.
LifetimeClock == {0, 300, 600, 900}

\* The process has started with the cache store reachable and empty; the
\* catalogue and the recommender are those of the concurrent runs.
InitLifetime ==
    /\ now = 0
    /\ feeds_col = [k \in DOMAIN ServeItems |-> ServeFeed(k)]
    /\ gorse = [u \in UserIds |-> ServeGorse]
    /\ likes_col = <<>>
    /\ comments_col = <<>>
    /\ saved_feeds_col = <<>>
    /\ reposts_col = <<>>
    /\ follows_col = <<>>
    /\ watch_col = <<>>
    /\ interests_col = <<>>
    /\ explore_feeds_col = <<>>
    /\ related_items_col = <<>>
    /\ redis_up = TRUE
    /\ REDIS_AVAILABLE = TRUE
    /\ redis_data = EmptyDoc
    /\ req = [w \in {"w1"} |-> IdleWorker]
    /\ served = 0
    /\ MergeIdle
    /\ RecencyIdle
    /\ HybridIdle
    /\ MixIdle

\* Requests of one user are served while time passes and the user likes
\* an item.
NextLifetime ==
    \/ \E w \in DOMAIN req, user_id \in UserIds, args \in ServeQueries :
          Receive(w, user_id, args)
    \/ \E w \in DOMAIN req : Generate(w)
    \/ \E w \in DOMAIN req : Write(w)
    \/ \E t \in LifetimeClock : TickTo(t)
    \/ \E user_id \in UserIds, iid \in LikeItems : Like(user_id, iid)

SpecLifetime ==
    InitLifetime /\ [][NextLifetime]_vars

\* The key worker w's cache write uses.
WriteKey(w) ==
    get_cache_key(req[w].user_id, req[w].session_id)

\* The step is worker w answering from the cache.
HitBy(w) ==
    /\ ReceivedBy(w)
    /\ req'[w].pc = "done"
    /\ req'[w].response.status = 200
    /\ req'[w].response.cache = "hit"

(* C15: a cache write gives its entry a lifetime of exactly 600 time units
   from the write; an entry stays in the store, unchanged and readable under
   its key, until a write to its key or its expiry; a cache hit leaves the
   store as it is, lifetimes included, and so does a new like; no step
   removes an entry before its expiry. *)
C15_EntryLifetime ==
    [][
       /\ \A w \in DOMAIN req :
             (WrittenBy(w) =>
                /\ WriteKey(w) \in DOMAIN redis_data'
                /\ redis_data'[WriteKey(w)].expires = now + 600)
       /\ \A k \in DOMAIN redis_data :
             \/ /\ k \in DOMAIN redis_data'
                /\ redis_data'[k] = redis_data[k]
                /\ RedisGet(k)' = [found |-> TRUE, value |-> redis_data[k].value]
             \/ \E v \in DOMAIN req : WrittenBy(v) /\ k = WriteKey(v)
             \/ now' >= redis_data[k].expires
       /\ \A w \in DOMAIN req : (HitBy(w) => redis_data' = redis_data)
       /\ (likes_col' # likes_col => redis_data' = redis_data)
    ]_vars

\* Half a lifetime after the write, and after the user liked an item, a
\* request was answered from the entry, which still expires at 600.
C15_Witness ==
    /\ now = 300
    /\ likes_col # <<>>
    /\ \E w \in DOMAIN req :
          /\ req[w].pc = "done"
          /\ req[w].response.status = 200
          /\ req[w].response.cache = "hit"
          /\ WriteKey(w) \in DOMAIN redis_data
          /\ redis_data[WriteKey(w)].expires = 600

\* ---------------------------------- specification: request parameters

\* The query strings whose page, limit and ratio lie below, in and above
\* their ranges, or are omitted.
ArgQueries ==
    QueryStrings({Absent, "-1", "0", "2", "200"},
                 {Absent, "-1", "4", "5", "20", "21", "200"},
                 {Absent, "s1"}, {Absent},
                 {Absent, "-0.5", "0.0", "0.29", "1.0", "1.5"})

\* The query string of the request that fills the cache of session s1.
SeedQueries ==
    QueryStrings({Absent}, {Absent}, {"s1"}, {Absent}, {Absent})

\* A first request fills the cache of session s1; a second one carries any
\* of the parameters.
NextArgs ==
    \/ \E w \in DOMAIN req, user_id \in UserIds, args \in SeedQueries :
          served = 0 /\ Receive(w, user_id, args)
    \/ \E w \in DOMAIN req, user_id \in UserIds, args \in ArgQueries :
          served = 1 /\ Receive(w, user_id, args)
    \/ \E w \in DOMAIN req : Generate(w)
    \/ \E w \in DOMAIN req : Write(w)

SpecArgs ==
    InitLifetime /\ [][NextArgs]_vars

(* C16: whatever integer page and limit and numeric personalized_ratio a
   request carries, the values recommend uses and echoes are a limit in
   [5, 20] (10 when omitted), a page of at least 1 and a ratio in [0, 1]
   (0.7 when omitted); the slice start is never negative and results_count
   never exceeds limit. *)
C16_ParametersClamped ==
    \A w \in DOMAIN req :
       req[w].pc # "idle" =>
          /\ req[w].limit \in 5..20
          /\ "limit" \notin DOMAIN req[w].args => req[w].limit = 10
          /\ req[w].page >= 1
          /\ req[w].personalized_ratio \in 0..100
          /\ "personalized_ratio" \notin DOMAIN req[w].args
                => req[w].personalized_ratio = 70
          /\ req[w].start = (req[w].page - 1) * req[w].limit
          /\ req[w].start >= 0
          /\ req[w].pc = "done" =>
                /\ req[w].response.status = 200
                /\ req[w].response.page = req[w].page
                /\ req[w].response.limit = req[w].limit
                /\ req[w].response.results_count
                      = Len(req[w].response.recommendations)
                /\ req[w].response.results_count <= req[w].response.limit
                /\ req[w].response.cache = "miss"
                      => req[w].response.stats.personalization_ratio \in 0..100

\* A request with page -1 and limit 4 was answered from the cache with page
\* 1, limit 5 and 5 items.
C16_Witness ==
    \E w \in DOMAIN req :
       /\ req[w].pc = "done"
       /\ Get(req[w].args, "page", Absent) = "-1"
       /\ Get(req[w].args, "limit", Absent) = "4"
       /\ req[w].response.cache = "hit"
       /\ req[w].response.page = 1
       /\ req[w].response.limit = 5
       /\ req[w].response.results_count = 5

\* --------------------------------- properties: the merged item snapshot

\* The places in the merge inputs of the records for item iid that carry a
\* feed_data field.
SnapshotCarriers(iid) ==
    {i \in DOMAIN MergeInputs :
        MergeInputs[i].item_id = iid /\ "feed_data" \in DOMAIN MergeInputs[i]}

(* C17: the feed_data of a merged record is the feed_data of the last input
   record of its item, in merge order, that carries one; records without
   feed_data leave an earlier snapshot as it is, and a merged record has no
   feed_data when no input record of its item has. *)
C17_LastSnapshotWins ==
    \A i \in DOMAIN merge_out :
       LET carriers == SnapshotCarriers(merge_out[i].item_id)
       IN  IF carriers = {} THEN "feed_data" \notin DOMAIN merge_out[i]
           ELSE /\ "feed_data" \in DOMAIN merge_out[i]
                /\ merge_out[i].feed_data = MergeInputs[MaxOf(carriers)].feed_data

\* An item has two records with different snapshots followed by a record
\* without one: merging the records in reverse order gives the item another
\* snapshot and the same score fields.
C17_Witness ==
    \E i \in DOMAIN merge_out :
       LET iid == merge_out[i].item_id
           rev == merge_candidates(<<Reversed(MergeInputs)>>)
       IN  /\ Cardinality(SnapshotCarriers(iid)) = 2
           /\ MaxOf(SnapshotCarriers(iid)) < Len(MergeInputs)
           /\ MergeInputs[Len(MergeInputs)].item_id = iid
           /\ merge_out[i].feed_data # rev[IndexOf(rev, iid)].feed_data
           /\ ScoreFields(merge_out, iid) = ScoreFields(rev, iid)

\* -------------------------------- specification: the preload buffer

\* The catalogues of the buffer runs: n items the recommender names and m
\* related items of the user, two of which the recommender names too.
BufferSizes == {<<3, 0>>, <<3, 6>>, <<100, 0>>, <<100, 6>>}

\* The related-item documents of user a for catalogue <<n, m>>.
BufferRelated(n, m) ==
    [k \in 1..m |-> [user_id |-> "a", related_item_id |-> ItemName(n - 2 + k),
                     score |-> 50]]

\* The process has started with one of the catalogues; the cache is
\* reachable and empty.
InitBuffer ==
    /\ now = 0
    /\ \E s \in BufferSizes :
          /\ feeds_col = PageFeeds(s[1] + s[2])
          /\ gorse = [u \in UserIds |-> PageGorse(s[1])]
          /\ related_items_col = BufferRelated(s[1], s[2])
    /\ likes_col = <<>>
    /\ comments_col = <<>>
    /\ saved_feeds_col = <<>>
    /\ reposts_col = <<>>
    /\ follows_col = <<>>
    /\ watch_col = <<>>
    /\ interests_col = <<>>
    /\ explore_feeds_col = <<>>
    /\ REDIS_AVAILABLE = TRUE
    /\ redis_up = TRUE
    /\ redis_data = EmptyDoc
    /\ req = [w \in {"w1"} |-> IdleWorker]
    /\ served = 0
    /\ MergeIdle
    /\ RecencyIdle
    /\ HybridIdle
    /\ MixIdle

\* The query strings of the buffer runs.
BufferQueries ==
    QueryStrings({Absent, "2"}, {Absent}, {PageSession},
                 {Absent, "TRUE"}, {Absent, "0.0"})

NextBuffer ==
    \/ \E w \in DOMAIN req, args \in BufferQueries : Receive(w, "a", args)
    \/ \E w \in DOMAIN req : Generate(w)
    \/ \E w \in DOMAIN req : Write(w)
    \/ Like("a", ItemName(1))

SpecBuffer ==
    InitBuffer /\ [][NextBuffer]_vars

(* C18: every list the cache holds has at most 100 entries and no item_id
   twice, and so has the list a regeneration is about to write; a cache hit
   reports a total of at most 100. *)
C18_CachedListBounded ==
    /\ \A k \in DOMAIN redis_data :
          LET list == JsonLoads(redis_data[k].value)
          IN  /\ Len(list) <= 100
              /\ Cardinality(Range(ItemIds(list))) = Len(list)
    /\ \A w \in DOMAIN req :
          /\ req[w].pc = "write"
                => /\ Len(req[w].full_list) <= 100
                   /\ Cardinality(Range(ItemIds(req[w].full_list)))
                         = Len(req[w].full_list)
          /\ (req[w].pc = "done" /\ req[w].response.status = 200
              /\ req[w].response.cache = "hit")
                => req[w].response.total <= 100

\* With 104 candidate items, two of them named by two sources, the cache
\* holds a list of 100 and a request was answered from it.
C18_Witness ==
    /\ Len(feeds_col) = 106
    /\ \E k \in DOMAIN redis_data : Len(JsonLoads(redis_data[k].value)) = 100
    /\ \E w \in DOMAIN req :
          /\ req[w].pc = "done"
          /\ req[w].response.status = 200
          /\ req[w].response.cache = "hit"
          /\ req[w].response.total = 100

\* ------------------------------------- specification: the cache keys

\* The user ids of the request paths: Flask's <user_id> takes any text
\* without a slash.
KeyUsers == {"a", "a:b", "f"}

\* The session ids the requests carry.
KeySessions == {"c", "b:c"}

\* The first and the last catalogue item the recommender names for a user:
\* every user has items of their own.
KeyItemRange(user_id) ==
    CASE user_id = "a" -> <<1, 6>>
      [] user_id = "a:b" -> <<11, 17>>
      [] OTHER -> <<21, 26>>

\* The items the recommender names for user_id.
KeyItems(user_id) ==
    {ItemName(k) : k \in KeyItemRange(user_id)[1]..KeyItemRange(user_id)[2]}

\* How the recommender answers user_id.
KeyGorse(user_id) ==
    [outcome |-> "response", status |-> 200,
     body |-> [json |-> TRUE, list |-> TRUE,
               items |-> [k \in 1..(KeyItemRange(user_id)[2] - KeyItemRange(user_id)[1] + 1) |->
                            [Id |-> ItemName(KeyItemRange(user_id)[1] + k - 1),
                             Score |-> 100]]]]

\* The process has started; the catalogue holds the items of every user;
\* the cache is reachable and empty.
InitKeys ==
    /\ now = 0
    /\ feeds_col = PageFeeds(26)
    /\ gorse = [u \in KeyUsers |-> KeyGorse(u)]
    /\ likes_col = <<>>
    /\ comments_col = <<>>
    /\ saved_feeds_col = <<>>
    /\ reposts_col = <<>>
    /\ follows_col = <<>>
    /\ watch_col = <<>>
    /\ interests_col = <<>>
    /\ explore_feeds_col = <<>>
    /\ related_items_col = <<>>
    /\ REDIS_AVAILABLE = TRUE
    /\ redis_up = TRUE
    /\ redis_data = EmptyDoc
    /\ req = [w \in {"w1"} |-> IdleWorker]
    /\ served = 0
    /\ MergeIdle
    /\ RecencyIdle
    /\ HybridIdle
    /\ MixIdle

\* The query strings of the requests: a page of 5, with or without session.
KeyQueries ==
    QueryStrings({Absent}, {"5"}, {Absent} \cup KeySessions, {Absent}, {"0.0"})

NextKeys ==
    \/ \E w \in DOMAIN req, user_id \in KeyUsers, args \in KeyQueries :
          Receive(w, user_id, args)
    \/ \E w \in DOMAIN req : Generate(w)
    \/ \E w \in DOMAIN req : Write(w)

SpecKeys ==
    InitKeys /\ [][NextKeys]_vars

(* C19: the cache key is injective in (user_id, session_id): requests of
   one user with different session ids use different keys, a session key is
   never a user's "latest" key, and requests of different users never use
   the same entry: the entry under a request's key never holds a list
   generated for another user, and no request is answered with items of
   another user's list. *)
C19_KeysSeparateUsers ==
    /\ \A u1, u2 \in KeyUsers, s1, s2 \in KeySessions :
          /\ (s1 # s2 => get_cache_key(u1, s1) # get_cache_key(u1, s2))
          /\ get_cache_key(u1, s1) # get_cache_key(u2, "")
          /\ (u1 # u2 => get_cache_key(u1, "") # get_cache_key(u2, ""))
    /\ \A w \in DOMAIN req :
          /\ (req[w].pc # "idle" /\ WriteKey(w) \in DOMAIN redis_data)
                => Range(ItemIds(JsonLoads(redis_data[WriteKey(w)].value)))
                      \subseteq KeyItems(req[w].user_id)
          /\ (req[w].pc = "done" /\ req[w].response.status = 200)
                => Range(ItemIds(req[w].response.recommendations))
                      \subseteq KeyItems(req[w].user_id)
====
